---- MODULE Spec2Model ----
(***************************************************************************)
(* DevContainer Wizard (tools/devcontainer-wizard/wizard.js).              *)
(*                                                                         *)
(* The wizard turns a form selection (security profile, shell, tools,      *)
(* security tools, features, extension categories) into a devcontainer     *)
(* manifest and a Dockerfile, shows both in the page, and lets the user    *)
(* download the files built from what the page shows.                      *)
(*                                                                         *)
(* Texts are modelled as sequences of lines: a text is the concatenation   *)
(* of its lines, each followed by a newline.  The empty text is << >>.     *)
(* A JavaScript object is a function from its keys to its values.          *)
(***************************************************************************)
EXTENDS Integers, Sequences, FiniteSets, TLC

(***************************************************************************)
(* Bounds of the model.                                                    *)
(***************************************************************************)
\* At most this many checkboxes (tools, security tools, features and
\* extension categories together) are checked in a form.
MaxChecked == 2

\* At most this many of the checkboxes the validation rules read are checked
\* in a form whose validation is checked.
MaxSelected == 6

\* At most this many tools, and this many security tools, are listed in a
\* config that test-basic.js tests.
MaxListed == 2

(***************************************************************************)
(* JavaScript values and array helpers.                                    *)
(***************************************************************************)
\* FormData.get() of a radio group with no button checked
Null == "null"

\* the value of a property that was assigned undefined
Undefined == "undefined"

\* the empty text (textContent of an empty element, the empty string)
EmptyText == << >>

\* Array.prototype.includes
includes(arr, v) == \E i \in DOMAIN arr : arr[i] = v

\* Array.prototype.join(sep) on an array of strings
RECURSIVE join(_, _)
join(arr, sep) ==
  IF Len(arr) = 0 THEN ""
  ELSE IF Len(arr) = 1 THEN arr[1]
  ELSE arr[1] \o sep \o join(Tail(arr), sep)

\* [...new Set(arr)] that keeps every occurrence
dedupe_KeepAll(arr) == arr

\* [...new Set(arr)]: the first occurrence of every element, in order
RECURSIVE dedupe(_)
dedupe(arr) ==
  IF Len(arr) = 0 THEN << >>
  ELSE LET front == dedupe(SubSeq(arr, 1, Len(arr) - 1))
           last  == arr[Len(arr)]
       IN  IF includes(front, last) THEN front ELSE Append(front, last)

\* String.prototype.trim() leaves the empty string: true of a text whose
\* lines hold nothing but spaces (the only such lines the wizard emits are
\* the empty line and the four-space line of the baseline block)
TrimIsEmpty(text) == \A i \in DOMAIN text : text[i] \in {"", "    "}

(***************************************************************************)
(* The form: the values of its radio groups and checkboxes, in document    *)
(* order.                                                                  *)
(***************************************************************************)
SecurityProfiles == {"minimal", "secure", "hardened", "auditor"}

Shells == {"bash", "zsh", "fish"}

ToolsOrder ==
  << "solidity", "hardhat", "foundry", "vyper", "rust", "go", "nodejs", "python" >>

SecurityToolsOrder ==
  << "fuzzing", "static-analysis", "symbolic-execution", "decompilers", "forensics" >>

\* the features checkboxes of test-manual.html; index.html has them in the
\* same order, without extensions
FeaturesOrder ==
  << "git", "asdf", "nvm", "package-managers", "docker", "extensions", "ports", "ipfs" >>

ExtensionsOrder ==
  << "solidity-core", "security-audit", "analysis-tools", "vyper-support",
     "productivity", "visualization" >>

Range(seq) == { seq[i] : i \in DOMAIN seq }

\* FormData.getAll(name): the checked values of a checkbox group, in
\* document order
getAll(checked, order) == SelectSeq(order, LAMBDA v : v \in checked)

VARIABLES
  form,                  \* the form: radio values and sets of checked boxes
  config,                \* the config of the latest generateDevContainer call
  validationDisplay,     \* #validation-results style.display
  validationMessages,    \* #validation-messages innerHTML, one entry per div
  devcontainerContent,   \* #devcontainer-content textContent
  dockerfileContent,     \* #dockerfile-content textContent
  dockerfileOutput,      \* #dockerfile-output style.display
  output,                \* #output style.display
  files,                 \* the files of the latest downloadAllFiles call
  testRun                \* test-basic.js: the configs left to test, the results
                         \* of those tested, and allPassed

vars == << form, config, validationDisplay, validationMessages,
           devcontainerContent, dockerfileContent, dockerfileOutput,
           output, files, testRun >>

\* DevContainerWizard.getFormData
getFormData ==
  [ security      |-> form.security,
    shell         |-> form.shell,
    tools         |-> getAll(form.tools, ToolsOrder),
    securityTools |-> getAll(form.securityTools, SecurityToolsOrder),
    features      |-> getAll(form.features, FeaturesOrder),
    extensions    |-> getAll(form.extensions, ExtensionsOrder) ]

(***************************************************************************)
(* validateConfiguration                                                   *)
(***************************************************************************)
\* push(msg) when cond holds
pushIf(arr, cond, msg) == IF cond THEN Append(arr, msg) ELSE arr

\* errorsOf with the docker rule firing under every profile
errorsOf_AnyProfile(c) ==
  pushIf(<< >>,
    includes(c.features, "docker"),
    "Docker-in-Docker is not compatible with read-only auditor mode.")

\* the errors list of validateConfiguration
errorsOf(c) ==
  pushIf(<< >>,
    includes(c.features, "docker") /\ c.security = "auditor",
    "Docker-in-Docker is not compatible with read-only auditor mode.")

\* warningsOf whose hardhat-and-foundry rule asks for hardhat to be selected first
warningsOf_HardhatFirst(c) ==
  LET toolCount == Len(c.tools) + Len(c.securityTools)
      w1 == pushIf(<< >>,
              c.security = "auditor" /\ Len(c.securityTools) = 0,
              "Security Auditor profile selected but no security tools chosen. Consider adding static analysis or fuzzing tools.")
      w2 == pushIf(w1,
              c.security = "hardened" /\ Len(c.tools) > 3,
              "Hardened security with many tools may increase container size and attack surface.")
      w3 == pushIf(w2,
              \E i, j \in DOMAIN c.tools :
                i < j /\ c.tools[i] = "hardhat" /\ c.tools[j] = "foundry",
              "Both Hardhat and Foundry selected. This may cause conflicts or unnecessary bloat.")
      w4 == pushIf(w3,
              includes(c.securityTools, "fuzzing") /\ ~includes(c.tools, "solidity")
                /\ ~includes(c.tools, "vyper"),
              "Fuzzing tools selected but no smart contract languages chosen. Fuzzing tools are most useful with Solidity/Vyper.")
      w5 == pushIf(w4,
              c.security = "hardened" /\ c.shell # "bash",
              "Non-bash shells in hardened mode may introduce additional security considerations.")
      w6 == pushIf(w5,
              includes(c.features, "asdf") /\ includes(c.features, "nvm"),
              "Both asdf and nvm selected. asdf can manage Node.js versions, making nvm redundant.")
      w7 == pushIf(w6,
              toolCount > 5,
              "Large number of tools selected (" \o ToString(toolCount)
                \o "). This will result in a larger container image.")
  IN  pushIf(w7,
        includes(c.features, "ipfs") /\ ~includes(c.features, "ports"),
        "IPFS selected but ports not forwarded. Consider enabling port forwarding for IPFS API (5001) and Gateway (8080).")

\* the warnings list of validateConfiguration, in the order of its pushes
warningsOf(c) ==
  LET toolCount == Len(c.tools) + Len(c.securityTools)
      w1 == pushIf(<< >>,
              c.security = "auditor" /\ Len(c.securityTools) = 0,
              "Security Auditor profile selected but no security tools chosen. Consider adding static analysis or fuzzing tools.")
      w2 == pushIf(w1,
              c.security = "hardened" /\ Len(c.tools) > 3,
              "Hardened security with many tools may increase container size and attack surface.")
      w3 == pushIf(w2,
              includes(c.tools, "hardhat") /\ includes(c.tools, "foundry"),
              "Both Hardhat and Foundry selected. This may cause conflicts or unnecessary bloat.")
      w4 == pushIf(w3,
              includes(c.securityTools, "fuzzing") /\ ~includes(c.tools, "solidity")
                /\ ~includes(c.tools, "vyper"),
              "Fuzzing tools selected but no smart contract languages chosen. Fuzzing tools are most useful with Solidity/Vyper.")
      w5 == pushIf(w4,
              c.security = "hardened" /\ c.shell # "bash",
              "Non-bash shells in hardened mode may introduce additional security considerations.")
      w6 == pushIf(w5,
              includes(c.features, "asdf") /\ includes(c.features, "nvm"),
              "Both asdf and nvm selected. asdf can manage Node.js versions, making nvm redundant.")
      w7 == pushIf(w6,
              toolCount > 5,
              "Large number of tools selected (" \o ToString(toolCount)
                \o "). This will result in a larger container image.")
  IN  pushIf(w7,
        includes(c.features, "ipfs") /\ ~includes(c.features, "ports"),
        "IPFS selected but ports not forwarded. Consider enabling port forwarding for IPFS API (5001) and Gateway (8080).")

\* infoOf whose security-tools rule asks for more than three of them
infoOf_MoreThanThree(c) ==
  LET i1 == pushIf(<< >>,
              includes(c.tools, "solidity") /\ ~includes(c.tools, "foundry")
                /\ ~includes(c.tools, "hardhat"),
              "Solidity selected without a framework. Consider adding Foundry or Hardhat for better development experience.")
      i2 == pushIf(i1,
              Len(c.securityTools) > 3,
              "Multiple security tools selected. Container build may take longer but provides comprehensive analysis capabilities.")
      i3 == pushIf(i2,
              includes(c.tools, "rust") /\ includes(c.features, "nvm"),
              "NVM selected with Rust. Consider using asdf for managing multiple language versions.")
      i4 == pushIf(i3,
              includes(c.tools, "solidity") /\ ~includes(c.tools, "python"),
              "Solidity uses solc-select which is installed via pip3. Python3 will be automatically installed.")
  IN  pushIf(i4,
        includes(c.features, "package-managers") /\ ~includes(c.tools, "nodejs"),
        "Package managers (yarn/pnpm) require Node.js which will be automatically installed.")

\* infoOf without the rule of solidity selected without python
infoOf_NoPythonNote(c) ==
  LET i1 == pushIf(<< >>,
              includes(c.tools, "solidity") /\ ~includes(c.tools, "foundry")
                /\ ~includes(c.tools, "hardhat"),
              "Solidity selected without a framework. Consider adding Foundry or Hardhat for better development experience.")
      i2 == pushIf(i1,
              Len(c.securityTools) >= 3,
              "Multiple security tools selected. Container build may take longer but provides comprehensive analysis capabilities.")
      i3 == pushIf(i2,
              includes(c.tools, "rust") /\ includes(c.features, "nvm"),
              "NVM selected with Rust. Consider using asdf for managing multiple language versions.")
  IN  pushIf(i3,
        includes(c.features, "package-managers") /\ ~includes(c.tools, "nodejs"),
        "Package managers (yarn/pnpm) require Node.js which will be automatically installed.")

\* the info list of validateConfiguration, in the order of its pushes
infoOf(c) ==
  LET i1 == pushIf(<< >>,
              includes(c.tools, "solidity") /\ ~includes(c.tools, "foundry")
                /\ ~includes(c.tools, "hardhat"),
              "Solidity selected without a framework. Consider adding Foundry or Hardhat for better development experience.")
      i2 == pushIf(i1,
              Len(c.securityTools) >= 3,
              "Multiple security tools selected. Container build may take longer but provides comprehensive analysis capabilities.")
      i3 == pushIf(i2,
              includes(c.tools, "rust") /\ includes(c.features, "nvm"),
              "NVM selected with Rust. Consider using asdf for managing multiple language versions.")
      i4 == pushIf(i3,
              includes(c.tools, "solidity") /\ ~includes(c.tools, "python"),
              "Solidity uses solc-select which is installed via pip3. Python3 will be automatically installed.")
  IN  pushIf(i4,
        includes(c.features, "package-managers") /\ ~includes(c.tools, "nodejs"),
        "Package managers (yarn/pnpm) require Node.js which will be automatically installed.")

validateConfiguration(c) ==
  LET errors   == errorsOf(c)
      warnings == warningsOf(c)
      info     == infoOf(c)
  IN  [ errors    |-> errors,
        warnings  |-> warnings,
        info      |-> info,
        hasIssues |-> Len(errors) > 0 \/ Len(warnings) > 0 ]

(***************************************************************************)
(* buildDevContainerConfig and its helpers                                 *)
(***************************************************************************)
\* obj[key] = val
setProp(obj, key, val) == (key :> val) @@ obj

\* delete obj[key]
deleteProp(obj, key) == [ k \in DOMAIN obj \ {key} |-> obj[k] ]

\* the empty object {}
EmptyObject == << >>

\* one case of the switch in getRecommendedExtensions
CategoryExtensions(category) ==
  CASE category = "solidity-core" ->
         << "JuanBlanco.solidity",
            "NomicFoundation.hardhat-solidity" >>
    [] category = "security-audit" ->
         << "tintinweb.solidity-visual-auditor",
            "tintinweb.solidity-metrics",
            "trailofbits.weaudit",
            "trailofbits.contract-explorer" >>
    [] category = "analysis-tools" ->
         << "tintinweb.solidity-metrics",
            "trailofbits.contract-explorer",
            "tintinweb.vscode-decompiler",
            "Olympixai.olympix" >>
    [] category = "vyper-support" ->
         << "tintinweb.vscode-vyper",
            "tintinweb.vscode-LLL" >>
    [] category = "productivity" ->
         << "eamodio.gitlens",
            "streetsidesoftware.code-spell-checker",
            "tintinweb.vscode-inline-bookmarks",
            "ryu1kn.partial-diff",
            "gimenete.github-linker" >>
    [] category = "visualization" ->
         << "tintinweb.vscode-ethover",
            "tintinweb.vscode-solidity-flattener",
            "tintinweb.graphviz-interactive-preview",
            "tintinweb.vscode-solidity-language" >>
    [] OTHER -> << >>

\* config.extensions.forEach(category => extensions = extensions.concat(...))
RECURSIVE concatCategories(_, _)
concatCategories(extensions, categories) ==
  IF Len(categories) = 0 THEN extensions
  ELSE concatCategories(extensions \o CategoryExtensions(Head(categories)),
                        Tail(categories))

getRecommendedExtensions(c) ==
  LET base == << "ms-vscode.vscode-json" >>
      picked ==
        IF Len(c.extensions) > 0
        THEN concatCategories(base, c.extensions)
        ELSE LET f1 == IF includes(c.tools, "solidity") \/ includes(c.tools, "hardhat")
                          \/ includes(c.tools, "foundry")
                       THEN base \o << "JuanBlanco.solidity",
                                       "NomicFoundation.hardhat-solidity" >>
                       ELSE base
                 f2 == IF includes(c.tools, "vyper")
                       THEN Append(f1, "tintinweb.vscode-vyper")
                       ELSE f1
             IN  f2 \o << "eamodio.gitlens", "streetsidesoftware.code-spell-checker" >>
      l1 == IF includes(c.tools, "rust")
            THEN picked \o << "rust-lang.rust-analyzer", "vadimcn.vscode-lldb" >>
            ELSE picked
      l2 == IF includes(c.tools, "go") THEN Append(l1, "golang.go") ELSE l1
      l3 == IF includes(c.tools, "nodejs")
            THEN l2 \o << "ms-vscode.vscode-typescript-next", "esbenp.prettier-vscode" >>
            ELSE l2
      l4 == IF includes(c.tools, "python")
            THEN l3 \o << "ms-python.python", "ms-python.pylint" >>
            ELSE l3
  IN  dedupe(l4)

\* getCommonPorts that stops at the first rule that matches
getCommonPorts_FirstMatchOnly(tools, features) ==
  IF includes(tools, "hardhat") \/ includes(tools, "nodejs") THEN << 8545, 3000 >>
  ELSE IF includes(tools, "foundry") THEN << 8545 >>
  ELSE IF includes(features, "ipfs") THEN << 5001, 8080 >>
  ELSE << 8545, 3000 >>

getCommonPorts(tools, features) ==
  LET p1 == IF includes(tools, "hardhat") \/ includes(tools, "nodejs")
            THEN << 8545, 3000 >> ELSE << >>
      p2 == IF includes(tools, "foundry") THEN Append(p1, 8545) ELSE p1
      p3 == IF includes(features, "ipfs") THEN p2 \o << 5001, 8080 >> ELSE p2
  IN  IF Len(p3) > 0 THEN p3 ELSE << 8545, 3000 >>

\* the properties an object literal inherits from Object.prototype
InheritedKeys ==
  { "constructor", "toString", "toLocaleString", "valueOf", "hasOwnProperty",
    "isPrototypeOf", "propertyIsEnumerable", "__proto__", "__defineGetter__",
    "__defineSetter__", "__lookupGetter__", "__lookupSetter__" }

\* the text "+=" appends for the inherited property key: String() of the
\* prototype object or of a native function; it has no final newline
InheritedText(key) ==
  CASE key = "__proto__"   -> "[object Object]"
    [] key = "constructor" -> "function Object() { [native code] }"
    [] OTHER               -> "function " \o key \o "() { [native code] }"

\* the inherited property key as a value: a native function or, for
\* __proto__, the object Object.prototype; text is String() of it
InheritedValue(key) ==
  [ text   |-> InheritedText(key),
    typeof |-> IF key = "__proto__" THEN "object" ELSE "function" ]

\* val is an inherited property, not a string (a string and a record cannot
\* be compared, their printed forms can; the fields of InheritedValue are
\* written in the order they are printed in)
IsInheritedValue(val) ==
  ToString(val) \in { ToString(InheritedValue(key)) : key \in InheritedKeys }

\* getShellPath with the path of zsh under /usr/bin
getShellPath_ZshInUsr(shell) ==
  CASE shell = "bash" -> "/bin/bash"
    [] shell = "zsh"  -> "/usr/bin/zsh"
    [] shell = "fish" -> "/usr/bin/fish"
    [] shell \in InheritedKeys -> InheritedValue(shell)
    [] OTHER          -> "/bin/bash"

\* shells[shell] || '/bin/bash': the path of the shell, the inherited
\* property when shell names one, else the path of bash
getShellPath(shell) ==
  CASE shell = "bash" -> "/bin/bash"
    [] shell = "zsh"  -> "/bin/zsh"
    [] shell = "fish" -> "/usr/bin/fish"
    [] shell \in InheritedKeys -> InheritedValue(shell)
    [] OTHER          -> "/bin/bash"

getPostCreateCommand(c) ==
  LET c1 == IF c.shell = "zsh" THEN << "chsh -s /bin/zsh" >>
            ELSE IF c.shell = "fish" THEN << "chsh -s /usr/bin/fish" >>
            ELSE << >>
      commands == IF includes(c.tools, "nodejs")
                  THEN Append(c1, "npm install -g yarn pnpm")
                  ELSE c1
  IN  IF Len(commands) > 0 THEN join(commands, " && ") ELSE Undefined

\* FeatureURI that gives asdf the key of nvm
FeatureURI_AsdfAsNode(feature) ==
  CASE feature = "git"    -> "ghcr.io/devcontainers/features/git:1"
    [] feature = "docker" -> "ghcr.io/devcontainers/features/docker-in-docker:2"
    [] feature = "asdf"   -> "ghcr.io/devcontainers/features/node:1"
    [] feature = "nvm"    -> "ghcr.io/devcontainers/features/node:1"

\* the keys of devcontainer.features, by the feature that adds each
FeatureURI(feature) ==
  CASE feature = "git"    -> "ghcr.io/devcontainers/features/git:1"
    [] feature = "docker" -> "ghcr.io/devcontainers/features/docker-in-docker:2"
    [] feature = "asdf"   -> "ghcr.io/devcontainers-contrib/features/asdf-package:1"
    [] feature = "nvm"    -> "ghcr.io/devcontainers/features/node:1"

\* buildDevContainerConfig whose hardened branch leaves the root filesystem writable
buildDevContainerConfig_WritableRoot(c) ==
  LET d0 == [ name  |-> "Web3 Development Environment",
              build |-> [ dockerfile |-> "Dockerfile" ] ]
      d1 == IF c.security = "auditor" THEN
              setProp(setProp(setProp(d0,
                "mounts",
                  << "source=${localWorkspaceFolder},target=/workspace,type=bind,readonly" >>),
                "containerUser", "nobody"),
                "runArgs",
                  << "--security-opt=no-new-privileges",
                     "--cap-drop=ALL",
                     "--read-only" >>)
            ELSE IF c.security = "hardened" THEN
              setProp(setProp(d0,
                "runArgs",
                  << "--security-opt=no-new-privileges",
                     "--security-opt=seccomp=/etc/docker/seccomp-profiles/default-no-chmod.json",
                     "--security-opt=apparmor:docker-default",
                     "--cap-drop=ALL",
                     "--cap-add=DAC_OVERRIDE" >>),
                "mounts",
                  << "source=${localWorkspaceFolder},target=/workspace,type=bind",
                     "target=/tmp,type=tmpfs",
                     "target=/var/tmp,type=tmpfs" >>)
            ELSE IF c.security = "secure" THEN
              setProp(d0,
                "runArgs",
                  << "--security-opt=no-new-privileges",
                     "--cap-drop=ALL",
                     "--cap-add=DAC_OVERRIDE",
                     "--cap-add=SETGID",
                     "--cap-add=SETUID" >>)
            ELSE d0
      uris == { FeatureURI(f) :
                  f \in { g \in {"git", "docker", "asdf", "nvm"} : includes(c.features, g) } }
      d2 == setProp(d1, "features", [ u \in uris |-> EmptyObject ])
      d3 == IF includes(c.features, "extensions") \/ Len(c.extensions) > 0
            THEN setProp(d2, "customizations",
                   [ vscode |-> [ extensions |-> getRecommendedExtensions(c) ] ])
            ELSE d2
      d4 == IF includes(c.features, "ports")
            THEN setProp(d3, "forwardPorts", getCommonPorts(c.tools, c.features))
            ELSE d3
      d5 == IF c.shell # "bash"
            THEN setProp(d4, "containerEnv", [ SHELL |-> getShellPath(c.shell) ])
            ELSE d4
  IN  setProp(d5, "postCreateCommand", getPostCreateCommand(c))

buildDevContainerConfig(c) ==
  LET d0 == [ name  |-> "Web3 Development Environment",
              build |-> [ dockerfile |-> "Dockerfile" ] ]
      d1 == IF c.security = "auditor" THEN
              setProp(setProp(setProp(d0,
                "mounts",
                  << "source=${localWorkspaceFolder},target=/workspace,type=bind,readonly" >>),
                "containerUser", "nobody"),
                "runArgs",
                  << "--security-opt=no-new-privileges",
                     "--cap-drop=ALL",
                     "--read-only" >>)
            ELSE IF c.security = "hardened" THEN
              setProp(setProp(d0,
                "runArgs",
                  << "--security-opt=no-new-privileges",
                     "--security-opt=seccomp=/etc/docker/seccomp-profiles/default-no-chmod.json",
                     "--security-opt=apparmor:docker-default",
                     "--cap-drop=ALL",
                     "--cap-add=DAC_OVERRIDE",
                     "--read-only" >>),
                "mounts",
                  << "source=${localWorkspaceFolder},target=/workspace,type=bind",
                     "target=/tmp,type=tmpfs",
                     "target=/var/tmp,type=tmpfs" >>)
            ELSE IF c.security = "secure" THEN
              setProp(d0,
                "runArgs",
                  << "--security-opt=no-new-privileges",
                     "--cap-drop=ALL",
                     "--cap-add=DAC_OVERRIDE",
                     "--cap-add=SETGID",
                     "--cap-add=SETUID" >>)
            ELSE d0
      uris == { FeatureURI(f) :
                  f \in { g \in {"git", "docker", "asdf", "nvm"} : includes(c.features, g) } }
      d2 == setProp(d1, "features", [ u \in uris |-> EmptyObject ])
      d3 == IF includes(c.features, "extensions") \/ Len(c.extensions) > 0
            THEN setProp(d2, "customizations",
                   [ vscode |-> [ extensions |-> getRecommendedExtensions(c) ] ])
            ELSE d2
      d4 == IF includes(c.features, "ports")
            THEN setProp(d3, "forwardPorts", getCommonPorts(c.tools, c.features))
            ELSE d3
      d5 == IF c.shell # "bash"
            THEN setProp(d4, "containerEnv", [ SHELL |-> getShellPath(c.shell) ])
            ELSE d4
  IN  setProp(d5, "postCreateCommand", getPostCreateCommand(c))

\* installations[key] || '' for a key the installations literal does not
\* define: the inherited property when key names one, else ''
inherited(key) ==
  IF key \in InheritedKeys THEN << InheritedText(key) >> ELSE << >>

getToolInstallation(tool) ==
  CASE tool = "solidity" ->
       << "# Install Solidity compiler and solc-select",
          "RUN pip3 install solc-select && \\",
          "    solc-select install 0.8.21 && \\",
          "    solc-select use 0.8.21",
          "" >>
    [] tool = "vyper" ->
       << "# Install Vyper",
          "RUN pip3 install vyper",
          "" >>
    [] tool = "hardhat" ->
       << "# Install Hardhat (requires Node.js)",
          "RUN if ! command -v node &> /dev/null; then \\",
          "        curl -fsSL https://deb.nodesource.com/setup_20.x | bash - && \\",
          "        apt-get install -y nodejs; \\",
          "    fi \\",
          "    && npm install -g hardhat",
          "" >>
    [] tool = "foundry" ->
       << "# Install Foundry",
          "RUN curl -L https://foundry.paradigm.xyz | bash \\",
          "    && /root/.foundry/bin/foundryup",
          "",
          "ENV PATH=\"/root/.foundry/bin:$PATH\"",
          "" >>
    [] tool = "nodejs" ->
       << "# Node.js already installed or will be installed",
          "RUN if ! command -v node &> /dev/null; then \\",
          "        curl -fsSL https://deb.nodesource.com/setup_20.x | bash - && \\",
          "        apt-get install -y nodejs; \\",
          "    fi",
          "" >>
    [] tool = "python" ->
       << "# Install Python Web3 libraries",
          "RUN pip3 install web3 eth-brownie",
          "" >>
    [] tool = "rust" ->
       << "# Rust already installed or will be installed",
          "RUN if ! command -v rustc &> /dev/null; then \\",
          "        curl --proto '=https' --tlsv1.2 -sSf https://sh.rustup.rs | sh -s -- -y && \\",
          "        . $HOME/.cargo/env; \\",
          "    fi",
          "" >>
    [] tool = "go" ->
       << "# Go already installed or will be installed",
          "RUN if ! command -v go &> /dev/null; then \\",
          "        wget https://golang.org/dl/go1.21.5.linux-amd64.tar.gz && \\",
          "        tar -C /usr/local -xzf go1.21.5.linux-amd64.tar.gz && \\",
          "        rm go1.21.5.linux-amd64.tar.gz; \\",
          "    fi",
          "",
          "ENV PATH=\"/usr/local/go/bin:$PATH\"",
          "" >>
    [] OTHER -> inherited(tool)

getSecurityToolInstallation(toolGroup) ==
  CASE toolGroup = "fuzzing" ->
       << "# Install Fuzzing Tools",
          "RUN # Install Medusa",
          "    wget https://github.com/crytic/medusa/releases/latest/download/medusa-linux-x64.tar.gz && \\",
          "    tar -xzf medusa-linux-x64.tar.gz && \\",
          "    mv medusa /usr/local/bin/ && \\",
          "    rm medusa-linux-x64.tar.gz && \\",
          "    # Install Echidna",
          "    wget https://github.com/crytic/echidna/releases/latest/download/echidna-test-2.2.1-Ubuntu-18.04.tar.gz && \\",
          "    tar -xzf echidna-test-2.2.1-Ubuntu-18.04.tar.gz && \\",
          "    mv echidna-test /usr/local/bin/echidna && \\",
          "    rm echidna-test-2.2.1-Ubuntu-18.04.tar.gz",
          "" >>
    [] toolGroup = "static-analysis" ->
       << "# Install Static Analysis Tools",
          "RUN pip3 install slither-analyzer slitherin semgrep aderyn && \\",
          "    # Install Slither LSP",
          "    pip3 install slither-lsp",
          "" >>
    [] toolGroup = "symbolic-execution" ->
       << "# Install Symbolic Execution Tools",
          "RUN pip3 install mythril && \\",
          "    # Install Halmos",
          "    pip3 install halmos",
          "" >>
    [] toolGroup = "decompilers" ->
       << "# Install Decompiler Tools",
          "RUN pip3 install panoramix-decompiler && \\",
          "    # Install Heimdall",
          "    wget https://github.com/Jon-Becker/heimdall-rs/releases/latest/download/heimdall-linux && \\",
          "    chmod +x heimdall-linux && \\",
          "    mv heimdall-linux /usr/local/bin/heimdall",
          "" >>
    [] toolGroup = "forensics" ->
       << "# Install Forensics Tools",
          "RUN pip3 install napalm-blockchain && \\",
          "    apt-get update && apt-get install -y --no-install-recommends \\",
          "    hexdump \\",
          "    xxd \\",
          "    binutils \\",
          "    && rm -rf /var/lib/apt/lists/*",
          "" >>
    [] OTHER -> inherited(toolGroup)

getPackageManagerInstallation ==
  << "# Install Additional Package Managers",
     "RUN # Install Node.js if not already installed (needed for yarn/pnpm)",
     "    if ! command -v node &> /dev/null; then \\",
     "        curl -fsSL https://deb.nodesource.com/setup_20.x | bash - && \\",
     "        apt-get install -y nodejs && \\",
     "        rm -rf /var/lib/apt/lists/*; \\",
     "    fi && \\",
     "    # Install yarn and pnpm",
     "    npm install -g yarn pnpm && \\",
     "    # Install pipx",
     "    python3 -m pip install pipx && \\",
     "    # Install uv (fast Python package installer)",
     "    curl -LsSf https://astral.sh/uv/install.sh | sh",
     "" >>

getIPFSInstallation ==
  << "# Install IPFS",
     "RUN apt-get update && apt-get install -y wget && \\",
     "    rm -rf /var/lib/apt/lists/* && \\",
     "    wget https://dist.ipfs.tech/kubo/v0.24.0/kubo_v0.24.0_linux-amd64.tar.gz && \\",
     "    tar -xzf kubo_v0.24.0_linux-amd64.tar.gz && \\",
     "    cd kubo && ./install.sh && \\",
     "    cd .. && rm -rf kubo* && \\",
     "    ipfs --version",
     "" >>

HardeningBlock ==
  << "# Security hardening",
     "RUN groupadd -r devuser && useradd -r -g devuser devuser",
     "RUN apt-get update && apt-get install -y --no-install-recommends \\",
     "    ca-certificates \\",
     "    && rm -rf /var/lib/apt/lists/*",
     "",
     "# Install security profiles",
     "RUN mkdir -p /etc/docker/seccomp-profiles",
     "COPY seccomp-profile.json /etc/docker/seccomp-profiles/default-no-chmod.json",
     "" >>

ZshBlock ==
  << "# Install Zsh and Oh My Zsh",
     "RUN apt-get update && apt-get install -y zsh \\",
     "    && rm -rf /var/lib/apt/lists/* \\",
     "    && sh -c \"$(curl -fsSL https://raw.github.com/ohmyzsh/ohmyzsh/master/tools/install.sh)\" \"\" --unattended",
     "" >>

FishBlock ==
  << "# Install Fish shell",
     "RUN apt-get update && apt-get install -y fish \\",
     "    && rm -rf /var/lib/apt/lists/*",
     "" >>

AuditorFinalBlock ==
  << "# Set up read-only user for security auditing",
     "USER devuser",
     "WORKDIR /workspace" >>

HardenedFinalBlock ==
  << "# Set up secure user with minimal privileges",
     "USER devuser",
     "WORKDIR /workspace" >>

DefaultFinalBlock ==
  << "# Set working directory",
     "WORKDIR /workspace" >>

\* generateReadmeContent; the backticks and the emoji of the text, which a
\* TLA+ string cannot hold, are written as the escapes \x60 and \u{1F680}
generateReadmeContent ==
  << "# Web3 Development Environment",
     "",
     "This project was created using the DevContainer Wizard.",
     "",
     "## Getting Started",
     "",
     "### GitHub Codespaces",
     "1. Click the \"Code\" button above",
     "2. Select \"Create codespace on main\"",
     "3. Wait for the environment to build",
     "",
     "### Gitpod",
     "1. Prefix this repository URL with \\x60gitpod.io/#\\x60",
     "2. Wait for the environment to build",
     "",
     "### Local Development",
     "1. Clone this repository",
     "2. Open in VS Code",
     "3. Install the \"Dev Containers\" extension",
     "4. Press F1 and select \"Dev Containers: Reopen in Container\"",
     "",
     "## Happy Coding! \\u{1F680}" >>
(***************************************************************************)
(* buildDockerfile.  Each block is the line sequence of one template       *)
(* literal of the source; the Dockerfile is their concatenation.           *)
(***************************************************************************)
\* BaseImageBlock that looks for nodejs before rust and go
BaseImageBlock_NodeFirst(c) ==
  IF includes(c.tools, "nodejs") THEN << "FROM node:20-slim", "" >>
  ELSE IF includes(c.tools, "rust") THEN << "FROM rust:1.75-slim", "" >>
  ELSE IF includes(c.tools, "go") THEN << "FROM golang:1.21-slim", "" >>
  ELSE << "FROM ubuntu:22.04", "" >>

BaseImageBlock(c) ==
  IF includes(c.tools, "rust") THEN << "FROM rust:1.75-slim", "" >>
  ELSE IF includes(c.tools, "go") THEN << "FROM golang:1.21-slim", "" >>
  ELSE IF includes(c.tools, "nodejs") THEN << "FROM node:20-slim", "" >>
  ELSE << "FROM ubuntu:22.04", "" >>

BaselineBlock(c) ==
  << "# Install basic tools and dependencies",
     "RUN apt-get update && apt-get install -y --no-install-recommends \\",
     "    curl \\",
     "    wget \\",
     "    unzip \\",
     "    python3 \\",
     "    python3-pip \\",
     "    python3-venv \\",
     "    " \o (IF includes(c.features, "git") THEN "git \\" ELSE ""),
     "    && rm -rf /var/lib/apt/lists/*",
     "" >>

ShellBlock(c) ==
  IF c.shell = "zsh" THEN ZshBlock
  ELSE IF c.shell = "fish" THEN FishBlock
  ELSE << >>

\* the fragment has no final newline: it is an inherited property
Unterminated(fragment) ==
  /\ Len(fragment) = 1
  /\ fragment[1] \in { InheritedText(key) : key \in InheritedKeys }

\* dockerfile += fragment, for a dockerfile whose last line is still open
\* (lacks its newline) when open holds
append(dockerfile, fragment) ==
  IF Len(fragment) = 0 THEN dockerfile
  ELSE [ lines |->
           IF dockerfile.open
           THEN SubSeq(dockerfile.lines, 1, Len(dockerfile.lines) - 1)
                  \o << dockerfile.lines[Len(dockerfile.lines)] \o Head(fragment) >>
                  \o Tail(fragment)
           ELSE dockerfile.lines \o fragment,
         open |-> Unterminated(fragment) ]

\* dockerfile += fragment for every fragment, in order
RECURSIVE appendAll(_, _)
appendAll(dockerfile, fragments) ==
  IF Len(fragments) = 0 THEN dockerfile
  ELSE appendAll(append(dockerfile, Head(fragments)), Tail(fragments))

\* ToolBlocks with "=" for "+=": every tool block replaces the one before
ToolBlocks_Overwrite(tools) ==
  IF Len(tools) = 0 THEN << >>
  ELSE << getToolInstallation(tools[Len(tools)]) >>

\* config.tools.forEach(tool => dockerfile += this.getToolInstallation(tool)):
\* the fragments appended, in order
ToolBlocks(tools) ==
  [ i \in DOMAIN tools |-> getToolInstallation(tools[i]) ]

\* config.securityTools.forEach(toolGroup => dockerfile += ...): the
\* fragments appended, in order
SecurityToolBlocks(groups) ==
  [ i \in DOMAIN groups |-> getSecurityToolInstallation(groups[i]) ]

FinalBlock(c) ==
  IF c.security = "auditor" THEN AuditorFinalBlock
  ELSE IF c.security = "hardened" THEN HardenedFinalBlock
  ELSE DefaultFinalBlock

\* buildDockerfile with the final block emitted before the feature blocks
buildDockerfile_EarlyFinalBlock(c) ==
  appendAll([ lines |-> << >>, open |-> FALSE ],
          << BaseImageBlock(c),
          IF c.security = "hardened" \/ c.security = "auditor"
            THEN HardeningBlock ELSE << >>,
          BaselineBlock(c),
          ShellBlock(c) >>
       \o ToolBlocks(c.tools)
       \o SecurityToolBlocks(c.securityTools)
       \o << FinalBlock(c),
          IF includes(c.features, "package-managers")
            THEN getPackageManagerInstallation ELSE << >>,
          IF includes(c.features, "ipfs") THEN getIPFSInstallation ELSE << >> >>).lines

\* buildDockerfile with the security-tool blocks emitted before the tool blocks
buildDockerfile_SecurityToolsFirst(c) ==
  appendAll([ lines |-> << >>, open |-> FALSE ],
          << BaseImageBlock(c),
          IF c.security = "hardened" \/ c.security = "auditor"
            THEN HardeningBlock ELSE << >>,
          BaselineBlock(c),
          ShellBlock(c) >>
       \o SecurityToolBlocks(c.securityTools)
       \o ToolBlocks(c.tools)
       \o << IF includes(c.features, "package-managers")
            THEN getPackageManagerInstallation ELSE << >>,
          IF includes(c.features, "ipfs") THEN getIPFSInstallation ELSE << >>,
          FinalBlock(c) >>).lines

\* let dockerfile = ''; dockerfile += ... for every block, in the order of
\* the statements
buildDockerfile(c) ==
  appendAll([ lines |-> << >>, open |-> FALSE ],
          << BaseImageBlock(c),
          IF c.security = "hardened" \/ c.security = "auditor"
            THEN HardeningBlock ELSE << >>,
          BaselineBlock(c),
          ShellBlock(c) >>
       \o ToolBlocks(c.tools)
       \o SecurityToolBlocks(c.securityTools)
       \o << IF includes(c.features, "package-managers")
            THEN getPackageManagerInstallation ELSE << >>,
          IF includes(c.features, "ipfs") THEN getIPFSInstallation ELSE << >>,
          FinalBlock(c) >>).lines

(***************************************************************************)
(* The build decision                                                      *)
(***************************************************************************)
\* needsCustomDockerfile without the ipfs test
needsCustomDockerfile_NoIPFS(c) ==
  \/ c.security = "hardened"
  \/ c.security = "auditor"
  \/ Len(c.securityTools) > 0
  \/ Len(c.tools) > 1
  \/ c.shell # "bash"
  \/ includes(c.tools, "foundry")
  \/ includes(c.tools, "solidity")
  \/ includes(c.tools, "vyper")
  \/ includes(c.features, "package-managers")

needsCustomDockerfile(c) ==
  \/ c.security = "hardened"
  \/ c.security = "auditor"
  \/ Len(c.securityTools) > 0
  \/ Len(c.tools) > 1
  \/ c.shell # "bash"
  \/ includes(c.tools, "foundry")
  \/ includes(c.tools, "solidity")
  \/ includes(c.tools, "vyper")
  \/ includes(c.features, "package-managers")
  \/ includes(c.features, "ipfs")

\* WizardTester.shouldHaveDockerfile: the test suite's expectation that a
\* Dockerfile is generated for c
shouldHaveDockerfile(c) ==
  \/ c.security = "hardened"
  \/ c.security = "auditor"
  \/ Len(c.securityTools) > 0
  \/ Len(c.tools) > 1
  \/ c.shell # "bash"
  \/ includes(c.tools, "foundry")
  \/ includes(c.tools, "solidity")
  \/ includes(c.tools, "vyper")
  \/ includes(c.features, "package-managers")

\* getPredefinedImage that looks for python before nodejs
getPredefinedImage_PythonFirst(c) ==
  IF includes(c.tools, "python") THEN "mcr.microsoft.com/devcontainers/python:3.11"
  ELSE IF includes(c.tools, "nodejs") THEN "mcr.microsoft.com/devcontainers/javascript-node:20"
  ELSE IF includes(c.tools, "rust") THEN "mcr.microsoft.com/devcontainers/rust:1"
  ELSE IF includes(c.tools, "go") THEN "mcr.microsoft.com/devcontainers/go:1.21"
  ELSE "mcr.microsoft.com/devcontainers/base:ubuntu"

getPredefinedImage(c) ==
  IF includes(c.tools, "nodejs") THEN "mcr.microsoft.com/devcontainers/javascript-node:20"
  ELSE IF includes(c.tools, "python") THEN "mcr.microsoft.com/devcontainers/python:3.11"
  ELSE IF includes(c.tools, "rust") THEN "mcr.microsoft.com/devcontainers/rust:1"
  ELSE IF includes(c.tools, "go") THEN "mcr.microsoft.com/devcontainers/go:1.21"
  ELSE "mcr.microsoft.com/devcontainers/base:ubuntu"

(***************************************************************************)
(* Display                                                                 *)
(***************************************************************************)
\* results.<list>.forEach(m => html += <div class="validation-message cls">icon m</div>)
\* one entry per div: its class and its message (the icon follows the class)
MessageDivs(messages, cls) ==
  [ i \in DOMAIN messages |-> [ class |-> cls, text |-> messages[i] ] ]

\* displayValidationResults that leaves the panel as it was when there is
\* nothing to show
displayValidationResults_NeverHides(results) ==
  IF ~results.hasIssues /\ Len(results.info) = 0
  THEN /\ UNCHANGED validationDisplay
       /\ UNCHANGED validationMessages
  ELSE /\ validationMessages' =
               MessageDivs(results.errors, "validation-message validation-error")
            \o MessageDivs(results.warnings, "validation-message validation-warning")
            \o MessageDivs(results.info, "validation-message validation-info")
       /\ validationDisplay' = "block"

\* displayValidationResults that hides the panel when there is no error and
\* no warning, whatever the info diagnostics
displayValidationResults_HidesInfoOnly(results) ==
  IF ~results.hasIssues
  THEN /\ validationDisplay' = "none"
       /\ UNCHANGED validationMessages
  ELSE /\ validationMessages' =
               MessageDivs(results.errors, "validation-message validation-error")
            \o MessageDivs(results.warnings, "validation-message validation-warning")
            \o MessageDivs(results.info, "validation-message validation-info")
       /\ validationDisplay' = "block"

displayValidationResults(results) ==
  IF ~results.hasIssues /\ Len(results.info) = 0
  THEN /\ validationDisplay' = "none"
       /\ UNCHANGED validationMessages
  ELSE /\ validationMessages' =
               MessageDivs(results.errors, "validation-message validation-error")
            \o MessageDivs(results.warnings, "validation-message validation-warning")
            \o MessageDivs(results.info, "validation-message validation-info")
       /\ validationDisplay' = "block"

\* JSON.stringify of containerEnv: a SHELL that is a function is left out,
\* a SHELL that is the object Object.prototype is printed as {}
stringifyEnv(env) ==
  IF ~IsInheritedValue(env.SHELL) THEN env
  ELSE IF env.SHELL.typeof = "function" THEN EmptyObject
  ELSE [ SHELL |-> EmptyObject ]

\* JSON.stringify(obj, null, 2): the object without the properties whose
\* value is undefined or a function (postCreateCommand is the only property
\* the wizard assigns undefined, containerEnv.SHELL the only one it assigns
\* a value that is no string, array or object literal)
JSONstringify(obj) ==
  [ k \in { p \in DOMAIN obj :
              ~(p = "postCreateCommand" /\ obj[p] = Undefined) } |->
      IF k = "containerEnv" THEN stringifyEnv(obj[k]) ELSE obj[k] ]

\* displayOutput without "delete devcontainerConfig.build"
displayOutput_KeepsBuild(devcontainerConfig, dockerfile, c) ==
  /\ IF needsCustomDockerfile(c)
     THEN /\ devcontainerContent' = JSONstringify(devcontainerConfig)
          /\ dockerfileContent' = dockerfile
          /\ dockerfileOutput' = "block"
     ELSE /\ dockerfileOutput' = "none"
          /\ devcontainerContent' =
               JSONstringify(setProp(devcontainerConfig,
                                     "image", getPredefinedImage(c)))
          /\ UNCHANGED dockerfileContent
  /\ output' = "block"

displayOutput(devcontainerConfig, dockerfile, c) ==
  /\ IF needsCustomDockerfile(c)
     THEN /\ devcontainerContent' = JSONstringify(devcontainerConfig)
          /\ dockerfileContent' = dockerfile
          /\ dockerfileOutput' = "block"
     ELSE /\ dockerfileOutput' = "none"
          /\ devcontainerContent' =
               JSONstringify(setProp(deleteProp(devcontainerConfig, "build"),
                                     "image", getPredefinedImage(c)))
          /\ UNCHANGED dockerfileContent
  /\ output' = "block"

(***************************************************************************)
(* Project files                                                           *)
(***************************************************************************)
getCurrentConfig == devcontainerContent # EmptyText

createProjectFiles ==
  LET f0 == ".devcontainer/devcontainer.json" :> devcontainerContent
      f1 == IF dockerfileContent # EmptyText /\ ~TrimIsEmpty(dockerfileContent)
            THEN setProp(f0, "Dockerfile", dockerfileContent)
            ELSE f0
      f2 == setProp(f1, "README.md", generateReadmeContent)
  IN  setProp(f2, "hello-world.md",
        << "# Hello Web3 World!\\n\\nYour development environment is ready!" >>)

(***************************************************************************)
(* Operations                                                              *)
(***************************************************************************)
NoConfig == << >>

NoFiles == << >>

\* generateDevContainer stopping after the validation display when the
\* validation reports an error
generateDevContainer_BlockedByErrors ==
  LET c == getFormData
      validationResults == validateConfiguration(c)
      devcontainerConfig == buildDevContainerConfig(c)
      dockerfile == buildDockerfile(c)
  IN  /\ config' = c
      /\ displayValidationResults(validationResults)
      /\ IF Len(validationResults.errors) > 0
         THEN UNCHANGED << devcontainerContent, dockerfileContent,
                           dockerfileOutput, output >>
         ELSE displayOutput(devcontainerConfig, dockerfile, c)
      /\ UNCHANGED << form, files, testRun >>

\* the submit handler of the form
generateDevContainer ==
  LET c == getFormData
      validationResults == validateConfiguration(c)
      devcontainerConfig == buildDevContainerConfig(c)
      dockerfile == buildDockerfile(c)
  IN  /\ config' = c
      /\ displayValidationResults(validationResults)
      /\ displayOutput(devcontainerConfig, dockerfile, c)
      /\ UNCHANGED << form, files, testRun >>

\* the "download all files" button
downloadAllFiles ==
  /\ IF ~getCurrentConfig
     THEN UNCHANGED files
     ELSE files' = createProjectFiles
  /\ UNCHANGED << form, config, validationDisplay, validationMessages,
                  devcontainerContent, dockerfileContent, dockerfileOutput,
                  output, testRun >>

\* dockerfile.includes('ipfs'): the only lines of a Dockerfile that hold
\* the text ipfs are these two of the IPFS block
includesIPFS(dockerfile) ==
  \E i \in DOMAIN dockerfile :
    dockerfile[i] \in
      { "    wget https://dist.ipfs.tech/kubo/v0.24.0/kubo_v0.24.0_linux-amd64.tar.gz && \\",
        "    ipfs --version" }

\* test-basic.js with no test config: nothing to run
NoTestRun == [ configs |-> << >>, results |-> << >>, allPassed |-> TRUE ]

\* one round of testConfigs.forEach in test-basic.js: the manifest and the
\* Dockerfile of the next config are built and checked.  A config has no
\* extensions there; << >> stands for it, as config.extensions is only read
\* by "config.extensions && config.extensions.length > 0"
testConfig ==
  /\ Len(testRun.configs) > 0
  /\ LET c            == Head(testRun.configs)
         devcontainer == buildDevContainerConfig(c)
         dockerfile   == buildDockerfile(c)
         error ==
           \/ "name" \notin DOMAIN devcontainer
           \/ /\ includes(c.features, "ipfs")
              /\ Len(dockerfile) > 0
              /\ ~includesIPFS(dockerfile)
           \/ includes(c.features, "ports") /\ "forwardPorts" \notin DOMAIN devcontainer
     IN  testRun' =
           [ configs   |-> Tail(testRun.configs),
             results   |-> Append(testRun.results,
                             [ config       |-> c,
                               devcontainer |-> devcontainer,
                               dockerfile   |-> dockerfile ]),
             allPassed |-> testRun.allPassed /\ ~error ]
  /\ UNCHANGED << form, config, validationDisplay, validationMessages,
                  devcontainerContent, dockerfileContent, dockerfileOutput,
                  output, files >>

\* the user (or the test page) fills in the form
setFormValues(f) ==
  /\ form' = f
  /\ UNCHANGED << config, validationDisplay, validationMessages,
                  devcontainerContent, dockerfileContent, dockerfileOutput,
                  output, files, testRun >>

(***************************************************************************)
(* Forms                                                                   *)
(***************************************************************************)
\* every checkbox of the form of index.html, tagged with its group
Boxes ==
       { << "tools", v >>         : v \in Range(ToolsOrder) }
  \cup { << "securityTools", v >> : v \in Range(SecurityToolsOrder) }
  \cup { << "features", v >>      : v \in Range(FeaturesOrder) \ { "extensions" } }
  \cup { << "extensions", v >>    : v \in Range(ExtensionsOrder) }

\* every checkbox of the form of test-manual.html, tagged with its group
TestPageBoxes ==
       { << "tools", v >>         : v \in Range(ToolsOrder) }
  \cup { << "securityTools", v >> : v \in Range(SecurityToolsOrder) }
  \cup { << "features", v >>      : v \in Range(FeaturesOrder) }

\* the subsets of S with at most k elements
RECURSIVE SubsetsUpTo(_, _)
SubsetsUpTo(S, k) ==
  IF k = 0 THEN { {} }
  ELSE LET P == SubsetsUpTo(S, k - 1)
       IN  P \cup { p \cup {x} : p \in P, x \in S }

Checked(boxes, group) == { b[2] : b \in { x \in boxes : x[1] = group } }

FormOf(security, shell, boxes) ==
  [ security      |-> security,
    shell         |-> shell,
    tools         |-> Checked(boxes, "tools"),
    securityTools |-> Checked(boxes, "securityTools"),
    features      |-> Checked(boxes, "features"),
    extensions    |-> Checked(boxes, "extensions") ]

\* a radio value that is not one of the form's options
UnknownId == "custom"

\* every form over the checkboxes pageBoxes with at most MaxChecked of them
\* checked; a radio group holds one of its options, no value (Null) or a
\* value outside its options
FormsOver(pageBoxes) ==
  { FormOf(security, shell, boxes) :
      security \in SecurityProfiles \cup {Null, UnknownId},
      shell \in Shells \cup {Null, UnknownId},
      boxes \in SubsetsUpTo(pageBoxes, MaxChecked) }

\* the forms of index.html and those of test-manual.html
IndexForms == FormsOver(Boxes)

TestPageForms == FormsOver(TestPageBoxes)

Forms == IndexForms \cup TestPageForms

\* the forms of a session of several generations; their checkboxes are on
\* both pages
SessionForms ==
  { FormOf(security, "bash", boxes) :
      security \in {"minimal", "hardened", "auditor"},
      boxes \in SUBSET { << "tools", "solidity" >>, << "tools", "hardhat" >>,
                         << "features", "docker" >> } }

\* the form as index.html loads it: minimal and bash checked
DefaultForm == FormOf("minimal", "bash", {})

\* the form as test-manual.html loads it: nothing checked
TestPageForm == FormOf(Null, Null, {})

\* test-manual.html as it loads: #output is hidden and #dockerfile-output
\* has no display style
InitTestPage ==
  /\ config = NoConfig
  /\ validationDisplay = "none"
  /\ validationMessages = << >>
  /\ devcontainerContent = EmptyText
  /\ dockerfileContent = EmptyText
  /\ dockerfileOutput = ""
  /\ output = "none"
  /\ files = NoFiles
  /\ testRun = NoTestRun

\* index.html as it loads: #dockerfile-output is hidden and #output has no
\* display style
InitPage ==
  /\ config = NoConfig
  /\ validationDisplay = "none"
  /\ validationMessages = << >>
  /\ devcontainerContent = EmptyText
  /\ dockerfileContent = EmptyText
  /\ dockerfileOutput = "none"
  /\ output = ""
  /\ files = NoFiles
  /\ testRun = NoTestRun

(***************************************************************************)
(* A session: the form is filled in and submitted any number of times.     *)
(***************************************************************************)
Init ==
  \/ form = DefaultForm /\ InitPage
  \/ form = TestPageForm /\ InitTestPage

Next ==
  \/ \E f \in SessionForms : setFormValues(f)
  \/ generateDevContainer
  \/ downloadAllFiles

Spec == Init /\ [][Next]_vars

(***************************************************************************)
(* One synthesis, for every form within the bounds.                        *)
(***************************************************************************)
InitSynth ==
  \/ form \in IndexForms /\ InitPage
  \/ form \in TestPageForms /\ InitTestPage

NextSynth ==
  \/ generateDevContainer
  \/ downloadAllFiles

SpecSynth == InitSynth /\ [][NextSynth]_vars

(***************************************************************************)
(* One validation, for every form over the checkboxes the rules read.      *)
(***************************************************************************)
\* the checkboxes validateConfiguration tells apart, and git
ValidatedBoxes ==
       { << "tools", v >> :
           v \in { "solidity", "hardhat", "foundry", "vyper", "rust", "nodejs", "python" } }
  \cup { << "securityTools", v >> :
           v \in { "fuzzing", "static-analysis", "symbolic-execution" } }
  \cup { << "features", v >> :
           v \in { "git", "asdf", "nvm", "package-managers", "docker", "ports", "ipfs" } }

\* every form with a profile, bash or zsh, and at most MaxSelected of the
\* validated checkboxes checked
ValidatedForms ==
  { FormOf(security, shell, boxes) :
      security \in SecurityProfiles,
      shell \in { "bash", "zsh" },
      boxes \in SubsetsUpTo(ValidatedBoxes, MaxSelected) }

\* the "hardened" entry of TEST_CONFIGS
HardenedTestConfig ==
  [ security      |-> "hardened",
    shell         |-> "bash",
    tools         |-> << "solidity" >>,
    securityTools |-> << "static-analysis" >>,
    features      |-> << "git" >>,
    extensions    |-> << >> ]

InitValidate == form \in ValidatedForms /\ InitPage

NextValidate == generateDevContainer

SpecValidate == InitValidate /\ [][NextValidate]_vars

(***************************************************************************)
(* test-basic.js: the script over its three configs, and over one config   *)
(* whose identifiers need not be values of the form.                       *)
(***************************************************************************)
\* the test configurations of the script.  A config has no extensions key
\* there; << >> stands for it, as config.extensions is only read by
\* "config.extensions && config.extensions.length > 0"
testConfigs ==
  << [ name   |-> "Basic Solidity",
       config |-> [ security      |-> "minimal",
                    shell         |-> "bash",
                    tools         |-> << "solidity" >>,
                    securityTools |-> << >>,
                    features      |-> << "git" >>,
                    extensions    |-> << >> ] ],
     [ name   |-> "IPFS + Ports",
       config |-> [ security      |-> "minimal",
                    shell         |-> "bash",
                    tools         |-> << >>,
                    securityTools |-> << >>,
                    features      |-> << "ipfs", "ports" >>,
                    extensions    |-> << >> ] ],
     [ name   |-> "Full Security Stack",
       config |-> [ security      |-> "hardened",
                    shell         |-> "zsh",
                    tools         |-> << "solidity", "foundry" >>,
                    securityTools |-> << "static-analysis", "fuzzing" >>,
                    features      |-> << "git", "extensions" >>,
                    extensions    |-> << >> ] ] >>

\* the sequences over S of length at most n
RECURSIVE SeqsUpTo(_, _)
SeqsUpTo(S, n) ==
  IF n = 0 THEN { << >> }
  ELSE LET shorter == SeqsUpTo(S, n - 1)
       IN  shorter \cup { Append(seq, x) : seq \in shorter, x \in S }

\* tool identifiers of a direct call: keys of the catalog, an identifier
\* that is no property at all, and two inherited properties
TestedTools == { "solidity", "rust", "nodejs", UnknownId, "constructor", "__proto__" }

\* security-tool identifiers of a direct call, likewise
TestedSecurityTools == { "fuzzing", UnknownId, "toString" }

\* shells of a direct call, likewise
TestedShells == { "bash", "zsh", "constructor", "__proto__" }

\* the configs a run may test: those of the script, and the configs of a
\* direct call within the bounds
TestedConfigs ==
       { testConfigs[i].config : i \in DOMAIN testConfigs }
  \cup { [ security      |-> security,
           shell         |-> shell,
           tools         |-> tools,
           securityTools |-> securityTools,
           features      |-> features,
           extensions    |-> << >> ] :
           security \in { "minimal", "hardened" },
           shell \in TestedShells,
           tools \in SeqsUpTo(TestedTools, MaxListed),
           securityTools \in SeqsUpTo(TestedSecurityTools, MaxListed),
           features \in { << >>, << "git" >>, << "ipfs", "ports" >> } }

\* the lists of configs a run starts with: the list of the script, and the
\* lists of one tested config
TestedLists ==
       { [ i \in DOMAIN testConfigs |-> testConfigs[i].config ] }
  \cup { << c >> : c \in TestedConfigs }

InitTests ==
  /\ form = DefaultForm
  /\ config = NoConfig
  /\ validationDisplay = "none"
  /\ validationMessages = << >>
  /\ devcontainerContent = EmptyText
  /\ dockerfileContent = EmptyText
  /\ dockerfileOutput = "none"
  /\ output = ""
  /\ files = NoFiles
  /\ \E configs \in TestedLists :
       testRun = [ configs |-> configs, results |-> << >>, allPassed |-> TRUE ]

NextTests == testConfig

SpecTests == InitTests /\ [][NextTests]_vars

(***************************************************************************)
(* Properties                                                              *)
(***************************************************************************)
generated == config # NoConfig

\* the profile and the shell of c are options of the form
ValidSelection(c) == c.security \in SecurityProfiles /\ c.shell \in Shells

\* text holds the lines of block, contiguously, from line offset + 1 on
OccursAt(text, block, offset) ==
  /\ offset + Len(block) <= Len(text)
  /\ SubSeq(text, offset + 1, offset + Len(block)) = block

\* text holds block verbatim
Contains(text, block) ==
  \E offset \in 0 .. Len(text) : OccursAt(text, block, offset)

\* the names a user instruction of the Dockerfile may carry
UserNames == {"devuser", "nobody", "root"}

UserInstruction(user) == "USER " \o user

UserCreation(user) ==
  "RUN groupadd -r " \o user \o " && useradd -r -g " \o user \o " " \o user

\* the line numbers of the USER instructions of a Dockerfile
UserLines(text) ==
  { i \in DOMAIN text : \E u \in UserNames : text[i] = UserInstruction(u) }

\* the users a Dockerfile switches to, and the users it creates
SwitchedUsers(text) == { u \in UserNames : includes(text, UserInstruction(u)) }

CreatedUsers(text) == { u \in UserNames : includes(text, UserCreation(u)) }

\* the blocks of the Dockerfile of c that install something
InstallBlocks(c) ==
  { b \in    { IF c.security = "hardened" \/ c.security = "auditor"
               THEN HardeningBlock ELSE << >>,
               BaselineBlock(c), ShellBlock(c),
               IF includes(c.features, "package-managers")
               THEN getPackageManagerInstallation ELSE << >>,
               IF includes(c.features, "ipfs")
               THEN getIPFSInstallation ELSE << >> }
        \cup { getToolInstallation(c.tools[i]) : i \in DOMAIN c.tools }
        \cup { getSecurityToolInstallation(c.securityTools[i]) :
                 i \in DOMAIN c.securityTools } :
      Len(b) > 0 }

\* the non-blank lines of the install blocks
InstallLines(c) ==
  UNION { Range(b) : b \in InstallBlocks(c) } \ {""}

\* C1: under the hardened and auditor profiles the Dockerfile has exactly
\* one USER instruction, USER devuser, in its final block; every install
\* block lies wholly before it and no install line follows it.
C1_PrivilegeDropLast ==
  (generated /\ config.security \in {"hardened", "auditor"}) =>
    LET text == dockerfileContent
        drops == UserLines(text)
    IN  /\ text = buildDockerfile(config)
        /\ Cardinality(drops) = 1
        /\ \A u \in drops :
             /\ text[u] = "USER devuser"
             /\ u > Len(text) - Len(FinalBlock(config))
             /\ \A b \in InstallBlocks(config) :
                  \E offset \in 0 .. Len(text) :
                    OccursAt(text, b, offset) /\ offset + Len(b) < u
             /\ \A i \in (u + 1) .. Len(text) : text[i] \notin InstallLines(config)

C1_Witness ==
  /\ generated
  /\ config.security = "auditor"
  /\ includes(config.features, "ipfs")
  /\ includes(config.tools, "foundry")
  /\ Contains(dockerfileContent, getIPFSInstallation)
  /\ includes(dockerfileContent, "USER devuser")

\* C2: the files of createProjectFiles hold a Dockerfile exactly when the
\* latest selection needs a custom Dockerfile, and then it is the Dockerfile
\* of that selection.
C2_FilesFollowLatestSelection ==
  generated =>
    LET projectFiles == createProjectFiles
    IN  /\ ("Dockerfile" \in DOMAIN projectFiles) <=> needsCustomDockerfile(config)
        /\ ("Dockerfile" \in DOMAIN projectFiles) =>
             projectFiles["Dockerfile"] = buildDockerfile(config)

\* C3: the displayed manifest has exactly one of build and image: build,
\* naming the Dockerfile, when the selection needs a custom Dockerfile, and
\* image when it does not.
C3_BuildXorImage ==
  generated =>
    LET keys == DOMAIN devcontainerContent
    IN  /\ ("build" \in keys) # ("image" \in keys)
        /\ needsCustomDockerfile(config) =>
             /\ "build" \in keys
             /\ devcontainerContent.build = [ dockerfile |-> "Dockerfile" ]
        /\ ~needsCustomDockerfile(config) =>
             /\ "image" \in keys
             /\ devcontainerContent.image = getPredefinedImage(config)

C3_Witness ==
  /\ generated
  /\ ~needsCustomDockerfile(config)
  /\ Len(config.tools) = 1
  /\ "image" \in DOMAIN devcontainerContent
  /\ "build" \notin DOMAIN devcontainerContent

\* the decision as the specification words it, on the checked boxes
CustomBuildRequired(f) ==
  \/ f.security \in {"hardened", "auditor"}
  \/ Cardinality(f.securityTools) > 0
  \/ Cardinality(f.tools) > 1
  \/ f.shell # "bash"
  \/ f.tools \cap {"foundry", "solidity", "vyper"} # {}
  \/ f.features \cap {"package-managers", "ipfs"} # {}

\* C4: a generation shows the Dockerfile panel (needsCustomDockerfile is
\* true) exactly when the profile is hardened or auditor, a security tool is
\* selected, more than one tool is selected, the shell is not bash, the
\* tools hold foundry, solidity or vyper, or the features hold
\* package-managers or ipfs; it is false for minimal or secure, bash, no
\* security tool, at most one of hardhat, rust, go, nodejs and python, and
\* neither package-managers nor ipfs.
C4_DecisionPolicy ==
  /\ needsCustomDockerfile(getFormData) <=> CustomBuildRequired(form)
  /\ generated => ((dockerfileOutput = "block") <=> CustomBuildRequired(form))
  /\ ( /\ form.security \in {"minimal", "secure"}
       /\ form.shell = "bash"
       /\ form.securityTools = {}
       /\ Cardinality(form.tools) <= 1
       /\ form.tools \subseteq {"hardhat", "rust", "go", "nodejs", "python"}
       /\ form.features \cap {"package-managers", "ipfs"} = {} )
     => ~needsCustomDockerfile(getFormData)

C4_Witness ==
  /\ generated
  /\ form.security = "minimal"
  /\ form.shell = "bash"
  /\ form.tools = {}
  /\ form.securityTools = {}
  /\ form.features = {"ipfs"}
  /\ dockerfileOutput = "block"

\* C5: when the manifest sets containerUser, it names the user that the
\* Dockerfile creates and switches to, and that user is not root.
C5_ContainerUserIsBuildUser ==
  (generated /\ ValidSelection(config)
     /\ "containerUser" \in DOMAIN devcontainerContent) =>
    /\ devcontainerContent.containerUser # "root"
    /\ CreatedUsers(buildDockerfile(config)) = { devcontainerContent.containerUser }
    /\ SwitchedUsers(buildDockerfile(config)) = { devcontainerContent.containerUser }

\* C6: a selection whose profile or shell is not one of the options (or is
\* missing) produces no manifest and no Dockerfile.
C6_UnknownValueFailsSynthesis ==
  (generated /\ (config.security \notin SecurityProfiles \/ config.shell \notin Shells)) =>
    /\ devcontainerContent = EmptyText
    /\ dockerfileContent = EmptyText

\* the error divs of the validation messages
ErrorDivs ==
  SelectSeq(validationMessages,
            LAMBDA d : d.class = "validation-message validation-error")

\* C7: validation reports an error exactly when the features hold docker and
\* the profile is auditor, and then exactly one; it never reports more than
\* one.
C7_ErrorIffAuditorDocker ==
  LET c == getFormData
      dockerInAuditor == "docker" \in form.features /\ form.security = "auditor"
  IN  /\ Len(validateConfiguration(c).errors) = (IF dockerInAuditor THEN 1 ELSE 0)
      /\ generated => Len(ErrorDivs) = (IF dockerInAuditor THEN 1 ELSE 0)

C7_Witness ==
  /\ generated
  /\ config.security = "auditor"
  /\ includes(config.features, "docker")
  /\ Len(ErrorDivs) = 1
  /\ validationDisplay = "block"

\* the manifest a generation shows for c, composed from c alone
ManifestOf(c) ==
  IF needsCustomDockerfile(c)
  THEN JSONstringify(buildDevContainerConfig(c))
  ELSE JSONstringify(setProp(deleteProp(buildDevContainerConfig(c), "build"),
                             "image", getPredefinedImage(c)))

\* C8: a generation shows the manifest and the Dockerfile composed from the
\* selection, also when validation reports an error.
C8_DiagnosticsDoNotBlock ==
  generated =>
    /\ output = "block"
    /\ devcontainerContent = ManifestOf(config)
    /\ needsCustomDockerfile(config) =>
         /\ dockerfileOutput = "block"
         /\ dockerfileContent = buildDockerfile(config)

C8_Witness ==
  /\ generated
  /\ Len(validateConfiguration(config).errors) > 0
  /\ Len(ErrorDivs) > 0
  /\ output = "block"
  /\ devcontainerContent # EmptyText
  /\ dockerfileContent # EmptyText

\* C9: the Dockerfile holds the catalog fragment of every selected tool and
\* of every selected security-tool group verbatim, and no such fragment is
\* empty.
C9_FragmentsPresent ==
  generated =>
    LET text == buildDockerfile(config)
    IN  /\ needsCustomDockerfile(config) => dockerfileContent = text
        /\ \A i \in DOMAIN config.tools :
             /\ Len(getToolInstallation(config.tools[i])) > 0
             /\ Contains(text, getToolInstallation(config.tools[i]))
        /\ \A i \in DOMAIN config.securityTools :
             /\ Len(getSecurityToolInstallation(config.securityTools[i])) > 0
             /\ Contains(text, getSecurityToolInstallation(config.securityTools[i]))

C9_Witness ==
  /\ generated
  /\ config.tools = << "hardhat", "foundry" >>
  /\ Contains(dockerfileContent, getToolInstallation("hardhat"))
  /\ Contains(dockerfileContent, getToolInstallation("foundry"))

GenericBaseImage == "mcr.microsoft.com/devcontainers/base:ubuntu"

\* C10: when the custom build is skipped, no security tool is selected and
\* every selected tool has the manifest name a tool-specific image, not the
\* generic base image.
C10_NothingLostWithoutBuild ==
  (generated /\ ValidSelection(config) /\ ~needsCustomDockerfile(config)) =>
    /\ Len(config.securityTools) = 0
    /\ Len(config.tools) > 0 => devcontainerContent.image # GenericBaseImage

\* the run arguments of a manifest (none when runArgs is absent)
RunArgs(manifest) ==
  IF "runArgs" \in DOMAIN manifest THEN Range(manifest.runArgs) ELSE {}

\* the mounts of a manifest (none when mounts is absent)
Mounts(manifest) ==
  IF "mounts" \in DOMAIN manifest THEN Range(manifest.mounts) ELSE {}

\* the capabilities a --cap-add argument may name
Capabilities ==
  { "DAC_OVERRIDE", "SETGID", "SETUID", "CHOWN", "FOWNER", "KILL",
    "NET_BIND_SERVICE", "SYS_ADMIN", "ALL" }

CapAdd(capability) == "--cap-add=" \o capability

\* the --cap-add arguments among args
CapAddArgs(args) == { a \in args : \E cap \in Capabilities : a = CapAdd(cap) }

\* the same selection under another profile
WithProfile(c, profile) == [ c EXCEPT !.security = profile ]

\* C11: the auditor manifest keeps every run argument of the hardened
\* manifest but the re-added capability, and its tmpfs mounts; it mounts the
\* workspace read-only, sets an unprivileged containerUser and re-adds no
\* capability.
C11_AuditorExtendsHardened ==
  (generated /\ ValidSelection(config) /\ config.security = "auditor") =>
    LET auditor  == devcontainerContent
        hardened == ManifestOf(WithProfile(config, "hardened"))
    IN  /\ (RunArgs(hardened) \ CapAddArgs(RunArgs(hardened))) \subseteq RunArgs(auditor)
        /\ { "target=/tmp,type=tmpfs", "target=/var/tmp,type=tmpfs" } \subseteq Mounts(auditor)
        /\ "source=${localWorkspaceFolder},target=/workspace,type=bind,readonly"
             \in Mounts(auditor)
        /\ "containerUser" \in DOMAIN auditor
        /\ auditor.containerUser # "root"
        /\ CapAddArgs(RunArgs(auditor)) = {}

\* the isolation fields of a manifest
SecurityFields(manifest) ==
  [ k \in DOMAIN manifest \cap { "runArgs", "mounts", "containerUser" } |-> manifest[k] ]

\* the selection of a profile with the default shell and nothing checked
BareSelection(profile) ==
  [ security |-> profile, shell |-> "bash", tools |-> << >>,
    securityTools |-> << >>, features |-> << >>, extensions |-> << >> ]

\* C12: the run arguments, mounts and container user of the manifest are
\* those of the profile with nothing else selected.  minimal has none of the
\* three; secure has exactly no-new-privileges, cap-drop ALL and cap-add
\* DAC_OVERRIDE, SETGID, SETUID; hardened has no-new-privileges, cap-drop ALL,
\* DAC_OVERRIDE as its only re-added capability, a seccomp option, an apparmor
\* option, --read-only and tmpfs mounts for /tmp and /var/tmp; hardened and
\* auditor manifests contain --security-opt=no-new-privileges.
C12_ProfileDeterminesIsolation ==
  generated =>
    LET m == devcontainerContent
    IN  /\ SecurityFields(m) = SecurityFields(ManifestOf(BareSelection(config.security)))
        /\ (config.security = "minimal") =>
             DOMAIN m \cap { "runArgs", "mounts", "containerUser" } = {}
        /\ (config.security = "secure") =>
             /\ RunArgs(m) = { "--security-opt=no-new-privileges", "--cap-drop=ALL",
                               CapAdd("DAC_OVERRIDE"), CapAdd("SETGID"), CapAdd("SETUID") }
             /\ Len(m.runArgs) = 5
             /\ DOMAIN m \cap { "mounts", "containerUser" } = {}
        /\ (config.security = "hardened") =>
             /\ { "--security-opt=no-new-privileges",
                  "--cap-drop=ALL",
                  "--security-opt=seccomp=/etc/docker/seccomp-profiles/default-no-chmod.json",
                  "--security-opt=apparmor:docker-default",
                  "--read-only" } \subseteq RunArgs(m)
             /\ CapAddArgs(RunArgs(m)) = { CapAdd("DAC_OVERRIDE") }
             /\ { "target=/tmp,type=tmpfs", "target=/var/tmp,type=tmpfs" } \subseteq Mounts(m)
        /\ (config.security \in { "hardened", "auditor" }) =>
             "--security-opt=no-new-privileges" \in RunArgs(m)

\* a hardened manifest was generated for a selection with a tool, a feature
\* and a shell other than bash
C12_Witness ==
  /\ generated
  /\ config.security = "hardened"
  /\ config.shell = "zsh"
  /\ Len(config.tools) > 0
  /\ Len(config.features) > 0

\* the ports the selected tools and features ask for
MatchedPorts(tools, features) ==
  UNION { IF tools \cap { "hardhat", "nodejs" } # {} THEN { 8545, 3000 } ELSE {},
          IF "foundry" \in tools THEN { 8545 } ELSE {},
          IF "ipfs" \in features THEN { 5001, 8080 } ELSE {} }

\* C13: forwardPorts is present iff the features contain ports; its ports
\* are {8545, 3000} for hardhat or nodejs, {8545} for foundry and
\* {5001, 8080} for ipfs, together, or {8545, 3000} when none of them is
\* selected; it is never empty and holds 5001 and 8080 whenever ipfs is
\* selected with ports.
C13_ForwardPorts ==
  generated =>
    LET m        == devcontainerContent
        tools    == Range(config.tools)
        features == Range(config.features)
        matched  == MatchedPorts(tools, features)
    IN  /\ ("forwardPorts" \in DOMAIN m) <=> ("ports" \in features)
        /\ ("forwardPorts" \in DOMAIN m) =>
             /\ Range(m.forwardPorts) = IF matched = {} THEN { 8545, 3000 } ELSE matched
             /\ Len(m.forwardPorts) > 0
             /\ ("ipfs" \in features) => { 5001, 8080 } \subseteq Range(m.forwardPorts)

\* a manifest was generated for a selection with ports in which all three
\* rules match: nodejs, foundry and ipfs
C13_Witness ==
  /\ generated
  /\ { "ipfs", "ports" } \subseteq Range(config.features)
  /\ { "nodejs", "foundry" } \subseteq Range(config.tools)
  /\ "forwardPorts" \in DOMAIN devcontainerContent
  /\ Range(devcontainerContent.forwardPorts) = { 8545, 3000, 5001, 8080 }

\* C14: the manifest of every selection with ipfs has a forwardPorts list
\* holding the IPFS API port 5001.
C14_IPFSPortForwarded ==
  (generated /\ ValidSelection(config) /\ includes(config.features, "ipfs")) =>
    /\ "forwardPorts" \in DOMAIN devcontainerContent
    /\ 5001 \in Range(devcontainerContent.forwardPorts)

\* the diagnostics panel of a selection: whether it is shown, and its entries
DiagnosticsOf(c) ==
  LET results == validateConfiguration(c)
  IN  [ shown   |-> results.hasIssues \/ Len(results.info) > 0,
        entries |-> MessageDivs(results.errors, "validation-message validation-error")
                 \o MessageDivs(results.warnings, "validation-message validation-warning")
                 \o MessageDivs(results.info, "validation-message validation-info") ]

\* what the page shows of the last generation: the manifest, the build
\* decision with the build script when one is built, and the diagnostics
\* when there are any
Shown ==
  [ manifest    |-> devcontainerContent,
    build       |-> dockerfileOutput = "block",
    script      |-> IF dockerfileOutput = "block" THEN dockerfileContent ELSE EmptyText,
    diagnostics |-> IF validationDisplay = "block" THEN validationMessages ELSE << >> ]

\* Shown, in the next state
ShownNext ==
  [ manifest    |-> devcontainerContent',
    build       |-> dockerfileOutput' = "block",
    script      |-> IF dockerfileOutput' = "block" THEN dockerfileContent' ELSE EmptyText,
    diagnostics |-> IF validationDisplay' = "block" THEN validationMessages' ELSE << >> ]

\* C15: whatever was generated before, the manifest, the build script and
\* the diagnostics shown are those of the last generated selection alone, and
\* generating the same selection again shows the same three.
C15_SynthesisMemoryless ==
  /\ [](generated =>
          Shown = [ manifest    |-> ManifestOf(config),
                    build       |-> needsCustomDockerfile(config),
                    script      |-> IF needsCustomDockerfile(config)
                                    THEN buildDockerfile(config) ELSE EmptyText,
                    diagnostics |-> IF DiagnosticsOf(config).shown
                                    THEN DiagnosticsOf(config).entries ELSE << >> ])
  /\ [][(generated /\ config' = config) => ShownNext = Shown]_vars

\* a selection with no build and no diagnostics was generated after a
\* selection with a build and diagnostics
C15_Witness ==
  /\ generated
  /\ config = getFormData
  /\ ~needsCustomDockerfile(config)
  /\ dockerfileContent # EmptyText
  /\ validationDisplay = "none"
  /\ validationMessages # << >>

\* the advisory rules, each with the diagnostic it asks for: the rule of
\* every warning and of every info diagnostic, over the sets of selected
\* tools, security tools and features
AdvisoryRules(c) ==
  LET tools         == Range(c.tools)
      securityTools == Range(c.securityTools)
      features      == Range(c.features)
      selected      == Cardinality(tools) + Cardinality(securityTools)
  IN  [ warnings |->
          { << c.security = "auditor" /\ securityTools = {},
               "Security Auditor profile selected but no security tools chosen. Consider adding static analysis or fuzzing tools." >>,
            << c.security = "hardened" /\ Cardinality(tools) > 3,
               "Hardened security with many tools may increase container size and attack surface." >>,
            << { "hardhat", "foundry" } \subseteq tools,
               "Both Hardhat and Foundry selected. This may cause conflicts or unnecessary bloat." >>,
            << c.security = "hardened" /\ c.shell # "bash",
               "Non-bash shells in hardened mode may introduce additional security considerations." >>,
            << { "asdf", "nvm" } \subseteq features,
               "Both asdf and nvm selected. asdf can manage Node.js versions, making nvm redundant." >>,
            << selected > 5,
               "Large number of tools selected (" \o ToString(selected)
                 \o "). This will result in a larger container image." >>,
            << "fuzzing" \in securityTools /\ tools \cap { "solidity", "vyper" } = {},
               "Fuzzing tools selected but no smart contract languages chosen. Fuzzing tools are most useful with Solidity/Vyper." >>,
            << "ipfs" \in features /\ "ports" \notin features,
               "IPFS selected but ports not forwarded. Consider enabling port forwarding for IPFS API (5001) and Gateway (8080)." >> },
        info |->
          { << "solidity" \in tools /\ tools \cap { "hardhat", "foundry" } = {},
               "Solidity selected without a framework. Consider adding Foundry or Hardhat for better development experience." >>,
            << Cardinality(securityTools) >= 3,
               "Multiple security tools selected. Container build may take longer but provides comprehensive analysis capabilities." >>,
            << "rust" \in tools /\ "nvm" \in features,
               "NVM selected with Rust. Consider using asdf for managing multiple language versions." >>,
            << "solidity" \in tools /\ "python" \notin tools,
               "Solidity uses solc-select which is installed via pip3. Python3 will be automatically installed." >>,
            << "package-managers" \in features /\ "nodejs" \notin tools,
               "Package managers (yarn/pnpm) require Node.js which will be automatically installed." >> } ]

\* the diagnostics of the rules that hold
Due(rules) == { r[2] : r \in { x \in rules : x[1] } }

\* C16: the warnings of validateConfiguration are the diagnostics of the
\* warning rules that hold and its info entries those of the info rules that
\* hold, each once and nothing else; hasIssues is true exactly when the error
\* rule (docker under auditor) or a warning rule holds.
C16_AdvisoryIffRule ==
  generated =>
    LET results == validateConfiguration(config)
        rules   == AdvisoryRules(config)
    IN  /\ Range(results.warnings) = Due(rules.warnings)
        /\ Len(results.warnings) = Cardinality(Due(rules.warnings))
        /\ Range(results.info) = Due(rules.info)
        /\ Len(results.info) = Cardinality(Due(rules.info))
        /\ results.hasIssues <=>
             \/ (config.security = "auditor" /\ "docker" \in Range(config.features))
             \/ Due(rules.warnings) # {}
        /\ (validationDisplay = "block") <=>
             (results.hasIssues \/ Due(rules.info) # {})

\* a selection of six tools and security tools, three of them security
\* tools, was validated: it has a warning and an info diagnostic
C16_Witness ==
  /\ generated
  /\ Len(config.tools) + Len(config.securityTools) > 5
  /\ Len(config.securityTools) >= 3
  /\ Len(validateConfiguration(config).warnings) > 0
  /\ Len(validateConfiguration(config).info) > 0
  /\ validationDisplay = "block"

\* the sequences that list every element of S once
RECURSIVE Orderings(_)
Orderings(S) ==
  IF S = {} THEN { << >> }
  ELSE UNION { { << x >> \o rest : rest \in Orderings(S \ {x}) } : x \in S }

\* the selections that differ from c only in the order of their tools,
\* security tools and features
Reordered(c) ==
  { [ c EXCEPT !.tools = tools, !.securityTools = securityTools, !.features = features ] :
      tools \in Orderings(Range(c.tools)),
      securityTools \in Orderings(Range(c.securityTools)),
      features \in Orderings(Range(c.features)) }

\* the diagnostics of a selection of n tools and security tools, in the
\* order validateConfiguration declares their rules, per severity
DeclarationOrder(n) ==
  [ errors |->
      << "Docker-in-Docker is not compatible with read-only auditor mode." >>,
    warnings |->
      << "Security Auditor profile selected but no security tools chosen. Consider adding static analysis or fuzzing tools.",
         "Hardened security with many tools may increase container size and attack surface.",
         "Both Hardhat and Foundry selected. This may cause conflicts or unnecessary bloat.",
         "Fuzzing tools selected but no smart contract languages chosen. Fuzzing tools are most useful with Solidity/Vyper.",
         "Non-bash shells in hardened mode may introduce additional security considerations.",
         "Both asdf and nvm selected. asdf can manage Node.js versions, making nvm redundant.",
         "Large number of tools selected (" \o ToString(n)
           \o "). This will result in a larger container image.",
         "IPFS selected but ports not forwarded. Consider enabling port forwarding for IPFS API (5001) and Gateway (8080)." >>,
    info |->
      << "Solidity selected without a framework. Consider adding Foundry or Hardhat for better development experience.",
         "Multiple security tools selected. Container build may take longer but provides comprehensive analysis capabilities.",
         "NVM selected with Rust. Consider using asdf for managing multiple language versions.",
         "Solidity uses solc-select which is installed via pip3. Python3 will be automatically installed.",
         "Package managers (yarn/pnpm) require Node.js which will be automatically installed." >> ]

\* diagnostics lists some of the entries of declared, in the order of declared
InOrderOf(diagnostics, declared) ==
  \E at \in [ DOMAIN diagnostics -> DOMAIN declared ] :
    /\ \A i \in DOMAIN diagnostics : declared[at[i]] = diagnostics[i]
    /\ \A i, j \in DOMAIN diagnostics : i < j => at[i] < at[j]

\* C17: a selection and every selection that differs from it only in the
\* order of its tools, security tools and features have the same errors,
\* warnings and info sequences, and each sequence lists its diagnostics in the
\* order validateConfiguration declares their rules.
C17_DiagnosticsOrderStable ==
  generated =>
    LET results  == validateConfiguration(config)
        declared == DeclarationOrder(Len(config.tools) + Len(config.securityTools))
    IN  /\ \A reordered \in Reordered(config) :
             validateConfiguration(reordered) = results
        /\ InOrderOf(results.errors, declared.errors)
        /\ InOrderOf(results.warnings, declared.warnings)
        /\ InOrderOf(results.info, declared.info)

\* a selection with several orders of its tools and features was validated,
\* and two of its diagnostics have the same severity
C17_Witness ==
  /\ generated
  /\ Len(config.tools) >= 2
  /\ Len(config.features) >= 2
  /\ Len(validateConfiguration(config).warnings) >= 2
  /\ Len(validateConfiguration(config).info) >= 2

\* C18 as claimed: validating the hardened test selection (solidity,
\* static-analysis, git, bash) yields one diagnostic, the info entry on
\* solidity without a framework, and no warning, error or other info entry.
C18_OnlyFrameworkInfo ==
  (generated /\ config = HardenedTestConfig) =>
    LET results == validateConfiguration(config)
    IN  /\ results.errors = << >>
        /\ results.warnings = << >>
        /\ results.info =
             << "Solidity selected without a framework. Consider adding Foundry or Hardhat for better development experience." >>

\* C18: validating the hardened test selection (solidity, static-analysis,
\* git, bash) yields exactly two diagnostics, both info entries: solidity
\* without a framework, then solidity without python; no warning and no error.
C18_FrameworkAndPythonInfo ==
  (generated /\ config = HardenedTestConfig) =>
    LET results == validateConfiguration(config)
    IN  /\ results.errors = << >>
        /\ results.warnings = << >>
        /\ ~results.hasIssues
        /\ results.info =
             << "Solidity selected without a framework. Consider adding Foundry or Hardhat for better development experience.",
                "Solidity uses solc-select which is installed via pip3. Python3 will be automatically installed." >>
        /\ validationDisplay = "block"
        /\ \A i \in DOMAIN validationMessages :
             validationMessages[i].class = "validation-message validation-info"
        /\ Len(validationMessages) = 2

\* the hardened test selection was validated and its diagnostics are shown
C18_Witness ==
  /\ generated
  /\ config = HardenedTestConfig
  /\ validationDisplay = "block"
  /\ needsCustomDockerfile(config)

\* the base-image lines
FromLines ==
  { "FROM rust:1.75-slim", "FROM golang:1.21-slim", "FROM node:20-slim",
    "FROM ubuntu:22.04" }

\* the first line of the block of each tool and of each security tool
BlockHead(id) ==
  CASE id = "solidity"           -> "# Install Solidity compiler and solc-select"
    [] id = "vyper"              -> "# Install Vyper"
    [] id = "hardhat"            -> "# Install Hardhat (requires Node.js)"
    [] id = "foundry"            -> "# Install Foundry"
    [] id = "nodejs"             -> "# Node.js already installed or will be installed"
    [] id = "python"             -> "# Install Python Web3 libraries"
    [] id = "rust"               -> "# Rust already installed or will be installed"
    [] id = "go"                 -> "# Go already installed or will be installed"
    [] id = "fuzzing"            -> "# Install Fuzzing Tools"
    [] id = "static-analysis"    -> "# Install Static Analysis Tools"
    [] id = "symbolic-execution" -> "# Install Symbolic Execution Tools"
    [] id = "decompilers"        -> "# Install Decompiler Tools"
    [] id = "forensics"          -> "# Install Forensics Tools"

\* the first line of the final block, by profile
FinalHeads ==
  { "# Set up read-only user for security auditing",
    "# Set up secure user with minimal privileges",
    "# Set working directory" }

\* line is the first line of a block
IsBlockHead(line) ==
  \/ line \in FromLines
  \/ line \in { "# Security hardening",
                "# Install basic tools and dependencies",
                "# Install Zsh and Oh My Zsh",
                "# Install Fish shell",
                "# Install Additional Package Managers",
                "# Install IPFS" }
  \/ line \in { BlockHead(id) : id \in Range(ToolsOrder) \cup Range(SecurityToolsOrder) }
  \/ line \in FinalHeads

\* the first lines of the blocks that follow the base-image line in the build
\* script of selection c, in the fixed order
BlocksAfterBase(c) ==
     (IF c.security \in { "hardened", "auditor" }
      THEN << "# Security hardening" >> ELSE << >>)
  \o << "# Install basic tools and dependencies" >>
  \o (CASE c.shell = "zsh"  -> << "# Install Zsh and Oh My Zsh" >>
        [] c.shell = "fish" -> << "# Install Fish shell" >>
        [] c.shell = "bash" -> << >>)
  \o [ i \in DOMAIN c.tools |-> BlockHead(c.tools[i]) ]
  \o [ i \in DOMAIN c.securityTools |-> BlockHead(c.securityTools[i]) ]
  \o (IF "package-managers" \in Range(c.features)
      THEN << "# Install Additional Package Managers" >> ELSE << >>)
  \o (IF "ipfs" \in Range(c.features) THEN << "# Install IPFS" >> ELSE << >>)

\* text is a build script of selection c with its blocks in the fixed order
BlocksInOrder(text, c) ==
  LET heads == SelectSeq(text, IsBlockHead)
  IN  /\ Len(text) > 0
      /\ text[1] \in FromLines
      /\ Len(heads) = Len(BlocksAfterBase(c)) + 2
      /\ heads[1] = text[1]
      /\ SubSeq(heads, 2, Len(heads) - 1) = BlocksAfterBase(c)
      /\ heads[Len(heads)] \in FinalHeads
      /\ text[Len(text)] = "WORKDIR /workspace"
      /\ ("    git \\" \in Range(text)) <=> ("git" \in Range(c.features))

\* C19: the build script starts with the base-image line, ends with the
\* final working-directory block, and has between them, in this order: the
\* hardening block iff the profile is hardened or auditor, the baseline block
\* (with git iff the git feature is selected), the shell block iff the shell
\* is not bash, one block per selected tool and then one per selected security
\* tool in the order of the selection, the package-manager block iff
\* package-managers is selected and the IPFS block iff ipfs is selected.
C19_BlocksInFixedOrder ==
  (generated /\ ValidSelection(config)) =>
    /\ BlocksInOrder(buildDockerfile(config), config)
    /\ (dockerfileOutput = "block") => BlocksInOrder(dockerfileContent, config)

\* a build script with a hardening block, a shell block, a tool block and a
\* security-tool block is shown
C19_Witness ==
  /\ generated
  /\ ValidSelection(config)
  /\ config.security \in { "hardened", "auditor" }
  /\ config.shell # "bash"
  /\ Len(config.tools) > 0
  /\ Len(config.securityTools) > 0
  /\ dockerfileOutput = "block"

\* the tool-specific images, highest priority first
PriorityImages ==
  << << "nodejs", "mcr.microsoft.com/devcontainers/javascript-node:20" >>,
     << "python", "mcr.microsoft.com/devcontainers/python:3.11" >>,
     << "rust",   "mcr.microsoft.com/devcontainers/rust:1" >>,
     << "go",     "mcr.microsoft.com/devcontainers/go:1.21" >> >>

\* the image of the selected tool of highest priority, or the generic base
ImageByPriority(tools) ==
  LET hits == { i \in DOMAIN PriorityImages : PriorityImages[i][1] \in tools }
  IN  IF hits = {} THEN GenericBaseImage
      ELSE PriorityImages[CHOOSE i \in hits : \A j \in hits : i <= j][2]

\* C20: getPredefinedImage picks the image by the priority nodejs > python >
\* rust > go > generic base; when no custom Dockerfile is needed the manifest
\* has no build reference and names that image, and the Dockerfile panel is
\* hidden; the selection of minimal, bash and nothing else needs no custom
\* Dockerfile, names the generic base image and has no runArgs.
C20_ImageByPriority ==
  generated =>
    /\ getPredefinedImage(config) = ImageByPriority(Range(config.tools))
    /\ ~needsCustomDockerfile(config) =>
         /\ "build" \notin DOMAIN devcontainerContent
         /\ "image" \in DOMAIN devcontainerContent
         /\ devcontainerContent.image = ImageByPriority(Range(config.tools))
         /\ dockerfileOutput = "none"
    /\ (config = BareSelection("minimal")) =>
         /\ ~needsCustomDockerfile(config)
         /\ devcontainerContent.image = GenericBaseImage
         /\ "runArgs" \notin DOMAIN devcontainerContent

\* the selection of minimal, bash and nothing else was generated
C20_Witness ==
  /\ generated
  /\ config = BareSelection("minimal")
  /\ "image" \in DOMAIN devcontainerContent
  /\ dockerfileOutput = "none"

\* the base images, highest priority first
PriorityBases ==
  << << "rust",   "FROM rust:1.75-slim" >>,
     << "go",     "FROM golang:1.21-slim" >>,
     << "nodejs", "FROM node:20-slim" >> >>

\* the FROM line of the selected tool of highest priority, or of the generic
\* ubuntu base
FromByPriority(tools) ==
  LET hits == { i \in DOMAIN PriorityBases : PriorityBases[i][1] \in tools }
  IN  IF hits = {} THEN "FROM ubuntu:22.04"
      ELSE PriorityBases[CHOOSE i \in hits : \A j \in hits : i <= j][2]

\* line is a FROM line
IsFromLine(line) == line \in FromLines

\* C21: the build script starts with the FROM line of rust if rust is
\* selected, else of go, else of nodejs, else of the ubuntu base; it has no
\* other FROM line, and the build script of the same tools selected in any
\* other order starts with the same line.
C21_BaseImageByPriority ==
  generated =>
    LET text == buildDockerfile(config)
    IN  /\ text[1] = FromByPriority(Range(config.tools))
        /\ Len(SelectSeq(text, IsFromLine)) = 1
        /\ \A reordered \in Reordered(config) :
             buildDockerfile(reordered)[1] = text[1]
        /\ (dockerfileOutput = "block") =>
             /\ dockerfileContent[1] = FromByPriority(Range(config.tools))
             /\ Len(SelectSeq(dockerfileContent, IsFromLine)) = 1

\* a build script is shown for a selection of two tools that each have a
\* base image
C21_Witness ==
  /\ generated
  /\ Cardinality(Range(config.tools) \cap { "rust", "go", "nodejs" }) >= 2
  /\ dockerfileOutput = "block"
  /\ dockerfileContent[1] \in FromLines

\* C22: the manifest always has a features map; its keys are the git URI iff
\* git is selected, the docker-in-docker URI iff docker is selected, the asdf
\* URI iff asdf is selected and the node URI iff nvm is selected, and no other
\* key; each key maps to an empty object.
C22_FeaturesOneToOne ==
  generated =>
    /\ "features" \in DOMAIN devcontainerContent
    /\ LET keys     == DOMAIN devcontainerContent.features
           features == Range(config.features)
       IN  /\ ("ghcr.io/devcontainers/features/git:1" \in keys) <=> ("git" \in features)
           /\ ("ghcr.io/devcontainers/features/docker-in-docker:2" \in keys)
                <=> ("docker" \in features)
           /\ ("ghcr.io/devcontainers-contrib/features/asdf-package:1" \in keys)
                <=> ("asdf" \in features)
           /\ ("ghcr.io/devcontainers/features/node:1" \in keys) <=> ("nvm" \in features)
           /\ Cardinality(keys) = Cardinality(features \cap { "git", "docker", "asdf", "nvm" })
           /\ \A k \in keys : DOMAIN devcontainerContent.features[k] = {}

\* a manifest was generated for a selection with one feature that has a URI
\* and one that has none
C22_Witness ==
  /\ generated
  /\ Range(config.features) \cap { "git", "docker", "asdf", "nvm" } # {}
  /\ Range(config.features) \ { "git", "docker", "asdf", "nvm" } # {}
  /\ Cardinality(DOMAIN devcontainerContent.features) = 1

\* the extension list of the manifest (none when customizations is absent)
ManifestExtensions(manifest) ==
  IF "customizations" \in DOMAIN manifest
  THEN manifest.customizations.vscode.extensions
  ELSE << >>

\* the base extension and the expansions of the given categories
CategoryDerived(categories) ==
  { "ms-vscode.vscode-json" }
    \cup UNION { Range(CategoryExtensions(category)) : category \in categories }

\* C23: when at least one extension category is selected, the extension list
\* holds only the base extension and the expansions of the selected
\* categories, whatever tools are selected.
C23_CategoriesExcludeTools ==
  (generated /\ ValidSelection(config) /\ Len(config.extensions) > 0) =>
    /\ "customizations" \in DOMAIN devcontainerContent
    /\ Range(ManifestExtensions(devcontainerContent))
         \subseteq CategoryDerived(Range(config.extensions))
    /\ Range(getRecommendedExtensions(config))
         = Range(getRecommendedExtensions([ config EXCEPT !.tools = << >> ]))

\* C24: the list of getRecommendedExtensions names no extension twice, also
\* in the manifest; every extension category of the form expands to a
\* non-empty list; the manifest has customizations iff the extensions feature
\* or an extension category is selected.
C24_ExtensionsDeduplicated ==
  generated =>
    LET list == getRecommendedExtensions(config)
    IN  /\ Cardinality(Range(list)) = Len(list)
        /\ Cardinality(Range(ManifestExtensions(devcontainerContent)))
             = Len(ManifestExtensions(devcontainerContent))
        /\ \A category \in Range(ExtensionsOrder) :
             Len(CategoryExtensions(category)) > 0
        /\ ("customizations" \in DOMAIN devcontainerContent) <=>
             ("extensions" \in Range(config.features) \/ Len(config.extensions) > 0)
        /\ ("customizations" \in DOMAIN devcontainerContent) =>
             devcontainerContent.customizations.vscode.extensions = list

\* a manifest was generated for two categories that share an extension
C24_Witness ==
  /\ generated
  /\ { "security-audit", "analysis-tools" } \subseteq Range(config.extensions)
  /\ "tintinweb.solidity-metrics" \in Range(ManifestExtensions(devcontainerContent))

\* the keys of the tool catalog and of the security-tool catalog
ToolCatalogKeys == Range(ToolsOrder)

SecurityCatalogKeys == Range(SecurityToolsOrder)

\* config c without the tools and security tools its catalogs do not hold
KnownOnly(c) ==
  [ c EXCEPT !.tools = SelectSeq(c.tools, LAMBDA id : id \in ToolCatalogKeys),
             !.securityTools =
               SelectSeq(c.securityTools, LAMBDA id : id \in SecurityCatalogKeys) ]

\* C25: every tool and security-tool identifier that is no key of its catalog
\* resolves to the empty text, and the build script of a config is the build
\* script of the config without such identifiers.
C25_CatalogMissIsEmpty ==
  \A i \in DOMAIN testRun.results :
    LET c == testRun.results[i].config
    IN  /\ \A id \in Range(c.tools) \ ToolCatalogKeys :
             getToolInstallation(id) = EmptyText
        /\ \A id \in Range(c.securityTools) \ SecurityCatalogKeys :
             getSecurityToolInstallation(id) = EmptyText
        /\ testRun.results[i].dockerfile = buildDockerfile(KnownOnly(c))

\* the absolute path of a shell other than bash
AbsolutePath(shell) == IF shell = "zsh" THEN "/bin/zsh" ELSE "/usr/bin/fish"

\* the install block of a shell other than bash
InstallBlock(shell) == IF shell = "zsh" THEN ZshBlock ELSE FishBlock

\* the postCreateCommand values that change the login shell to path
ChshCommands(path) ==
  { "chsh -s " \o path, "chsh -s " \o path \o " && npm install -g yarn pnpm" }

\* C26: for zsh or fish the manifest has containerEnv.SHELL equal to the
\* absolute path of the shell, the build script is shown and holds the
\* install block of that shell and of no other, and postCreateCommand runs
\* chsh with the path of containerEnv.SHELL; for bash the manifest has no
\* containerEnv, the build script has no shell install block and
\* postCreateCommand, if present, has no chsh.
C26_ShellCoherent ==
  generated =>
    /\ config.shell \in { "zsh", "fish" } =>
         /\ "containerEnv" \in DOMAIN devcontainerContent
         /\ devcontainerContent.containerEnv = [ SHELL |-> AbsolutePath(config.shell) ]
         /\ dockerfileOutput = "block"
         /\ \A shell \in { "zsh", "fish" } :
              Contains(dockerfileContent, InstallBlock(shell)) <=> shell = config.shell
         /\ "postCreateCommand" \in DOMAIN devcontainerContent
         /\ devcontainerContent.postCreateCommand
              \in ChshCommands(devcontainerContent.containerEnv.SHELL)
    /\ config.shell = "bash" =>
         /\ "containerEnv" \notin DOMAIN devcontainerContent
         /\ \A shell \in { "zsh", "fish" } :
              ~Contains(buildDockerfile(config), InstallBlock(shell))
         /\ "postCreateCommand" \in DOMAIN devcontainerContent =>
              devcontainerContent.postCreateCommand = "npm install -g yarn pnpm"

\* fish was generated together with nodejs: the manifest has containerEnv and
\* a postCreateCommand of two commands, and the build script is shown
C26_Witness ==
  /\ generated
  /\ config.shell = "fish"
  /\ includes(config.tools, "nodejs")
  /\ "containerEnv" \in DOMAIN devcontainerContent
  /\ devcontainerContent.postCreateCommand
       = "chsh -s /usr/bin/fish && npm install -g yarn pnpm"
  /\ Contains(dockerfileContent, FishBlock)

\* the files a build context may hold, and the targets of a COPY instruction
ContextFiles ==
  { ".devcontainer/devcontainer.json", "Dockerfile", "README.md",
    "hello-world.md", "seccomp-profile.json" }

CopyTargets == { "/etc/docker/seccomp-profiles/default-no-chmod.json" }

CopyInstruction(file, target) == "COPY " \o file \o " " \o target

\* the build-context files a build script copies
CopiedFiles(text) ==
  { file \in ContextFiles :
      \E target \in CopyTargets : includes(text, CopyInstruction(file, target)) }

\* C27: every file the build script of the produced file set copies with a
\* COPY instruction is one of the produced files.
C27_FilesSelfContained ==
  (files # NoFiles /\ "Dockerfile" \in DOMAIN files) =>
    CopiedFiles(files["Dockerfile"]) \subseteq DOMAIN files

\* no element of seq occurs twice
NoRepeat(seq) == \A i, j \in DOMAIN seq : seq[i] = seq[j] => i = j

\* C28: with ports requested, the forwardPorts of the manifest holds no port
\* number more than once.
C28_PortsListedOnce ==
  (generated /\ includes(config.features, "ports")) =>
    /\ "forwardPorts" \in DOMAIN devcontainerContent
    /\ NoRepeat(devcontainerContent.forwardPorts)

\* C29: for the selection of a generation with a profile and a shell, shouldHaveDockerfile of the test
\* suite and needsCustomDockerfile of the wizard return the same boolean, and
\* so the Dockerfile panel is shown iff the test suite expects a Dockerfile.
C29_OracleAgreesWithPolicy ==
  (generated /\ ValidSelection(config)) =>
    /\ shouldHaveDockerfile(config) <=> needsCustomDockerfile(config)
    /\ shouldHaveDockerfile(config) <=> dockerfileOutput = "block"

\* the entry the validation section lists at position i for results: the
\* errors come first, then the warnings, then the info diagnostics
ListedAt(results, i) ==
  LET e == Len(results.errors)
      w == Len(results.warnings)
  IN  IF i <= e
      THEN [ class |-> "validation-message validation-error",
             text  |-> results.errors[i] ]
      ELSE IF i <= e + w
      THEN [ class |-> "validation-message validation-warning",
             text  |-> results.warnings[i - e] ]
      ELSE [ class |-> "validation-message validation-info",
             text  |-> results.info[i - e - w] ]

\* C30: after any sequence of generations, the validation section is visible
\* iff the latest selection has an error, a warning or an info diagnostic, and
\* it then lists the errors, the warnings and the info diagnostics of that
\* selection, in this order and nothing else; the Dockerfile panel is visible
\* iff needsCustomDockerfile holds for that selection, and it then shows the
\* build script of that selection.
C30_VisibleOutputIsLatest ==
  generated =>
    LET results == validateConfiguration(config)
        total   == Len(results.errors) + Len(results.warnings) + Len(results.info)
    IN  /\ validationDisplay = "block" <=> total > 0
        /\ validationDisplay = "block" =>
             /\ Len(validationMessages) = total
             /\ \A i \in 1 .. total : validationMessages[i] = ListedAt(results, i)
        /\ dockerfileOutput = "block" <=> needsCustomDockerfile(config)
        /\ dockerfileOutput = "block" => dockerfileContent = buildDockerfile(config)
        /\ output = "block"

\* the latest selection shows an error before its info diagnostics and shows
\* its build script, after another selection whose files were downloaded
\* with another build script
C30_Witness ==
  /\ generated
  /\ validationDisplay = "block"
  /\ Len(validationMessages) > 1
  /\ validationMessages[1].class = "validation-message validation-error"
  /\ validationMessages[Len(validationMessages)].class
       = "validation-message validation-info"
  /\ Len(validateConfiguration(config).info) > 0
  /\ dockerfileOutput = "block"
  /\ dockerfileContent = buildDockerfile(config)
  /\ files # NoFiles
  /\ "Dockerfile" \in DOMAIN files
  /\ files["Dockerfile"] # dockerfileContent

====
